---- MODULE Spec2Model ----
(***************************************************************************)
(* Model of chordcontroller: the command registry and undo engine          *)
(* (Invoker), the action vocabulary (Command classes), the target          *)
(* (Instrument), the input mapping state machine (InputHandler) and the    *)
(* facade (ChordController).                                               *)
(***************************************************************************)
EXTENDS Integers, Sequences, FiniteSets, TLC

VARIABLES
    commands,              \* Invoker._commands: action tuple -> its Command (the object's id)
    command_stacks,        \* Invoker._command_stacks: group key -> tuple of Commands, newest first
    command_stack_limits,  \* Invoker._command_stack_limits: group key -> limit
    target,                \* the object the commands act on (Instrument attributes)
    last,                  \* the call made last and how it ended
    run,                   \* the action tuples a test run has done so far
    handler,               \* the InputHandler of the facade
    held                   \* the buttons of the tracked device that are down

vars == <<commands, command_stacks, command_stack_limits, target, last, run,
          handler, held>>

(***************************************************************************)
(* Bounds of the exploration.                                              *)
(***************************************************************************)
MaxStack == 3      \* longest undo stack explored
MaxLimit == 2      \* largest stack_limit passed to add_command / do

(***************************************************************************)
(* The target object: an Instrument.                                       *)
(***************************************************************************)
INST == "inst"
IH == "input_handler"

MAJOR == 0
MINOR == 1
DIMINISHED == 2
DIMINISHED_SEVENTH == 9
MINOR_SEVENTH == 10
MAJOR_NINTH == 14
BASS_ROOT == 1
BASS_INVERSION == 2

AttrKeys == {"octave", "tonic", "tonic_offset", "bass", "harmony", "voicing",
             "quality_modifier", "extension_modifier", "velocity"}

\* Instrument.__init__
InstrumentInit ==
    [attr |-> [k \in AttrKeys |->
                  CASE k = "octave" -> 5
                    [] k = "velocity" -> 127
                    [] OTHER -> 0],
     playing |-> {}]

\* the objects commands act on: the Instrument, and the mode of the
\* InputHandler (InputHandler.__init__)
TargetInit ==
    [attr |-> InstrumentInit.attr, playing |-> InstrumentInit.playing,
     mode |-> "default", next |-> <<>>]

\* setattr on an Instrument: the property setters of octave, bass and tonic
\* store int(v) modulo 9, 3 and 12
SetAttr(t, key, v) ==
    [t EXCEPT !.attr[key] = CASE key = "octave" -> v % 9
                              [] key = "bass" -> v % 3
                              [] key = "tonic" -> v % 12
                              [] OTHER -> v]

GetAttr(t, key) == t.attr[key]

\* scale_position_data, as <<root_pitch, quality>>
scale_position_data ==
    << <<0, MAJOR>>, <<2, MINOR>>, <<4, MINOR>>, <<5, MAJOR>>,
       <<7, MAJOR>>, <<9, MINOR>>, <<11, DIMINISHED>> >>

\* Chord(root, quality, extensions, voicing)
Chord(root, quality, extensions, voicing) ==
    LET triad == CASE quality = MINOR -> <<root, root + 3, root + 7>>
                   [] quality = DIMINISHED -> <<root, root + 3, root + 6>>
                   [] OTHER -> <<root, root + 4, root + 7>>
        chord == triad \o [i \in 1..Len(extensions) |-> root + extensions[i]]
        n == Len(chord)
    IN  IF voicing = 0 THEN chord
        ELSE [i \in 1..n |->
                 LET k == (i - 1) + voicing
                 IN  chord[(k % n) + 1] + (k \div n) * 12]

\* Instrument.construct_chord
construct_chord(t, scale_position) ==
    LET spd == scale_position_data[scale_position + 1]
        root == t.attr["tonic"] + (t.attr["octave"] * 12) + spd[1]
                + t.attr["tonic_offset"]
        quality ==
            CASE t.attr["quality_modifier"] = 1 ->
                    (IF spd[2] = MAJOR THEN MINOR ELSE MAJOR)
              [] t.attr["quality_modifier"] = 2 ->
                    (IF spd[2] # DIMINISHED THEN DIMINISHED ELSE MINOR)
              [] OTHER -> spd[2]
        extensions ==
            CASE t.attr["extension_modifier"] = 1 -> <<MINOR_SEVENTH>>
              [] t.attr["extension_modifier"] = 2 ->
                    (IF quality = DIMINISHED THEN <<DIMINISHED_SEVENTH>>
                     ELSE <<MINOR_SEVENTH, MAJOR_NINTH>>)
              [] OTHER -> <<>>
        chord == Chord(root, quality, extensions, t.attr["voicing"])
    IN  CASE t.attr["bass"] = BASS_ROOT -> Append(chord, root - 12)
          [] t.attr["bass"] = BASS_INVERSION -> Append(chord, chord[1] - 12)
          [] OTHER -> chord

\* Instrument.send_note_on: the set of playing notes afterwards
send_note_on(t, note_values, velocity) ==
    IF note_values = {} THEN t
    ELSE IF velocity # 0
    THEN [t EXCEPT !.playing = @ \cup note_values]
    ELSE [t EXCEPT !.playing = @ \ note_values]

\* Instrument.release
release(t) == send_note_on(t, t.playing, 0)

\* Instrument.play_scale_position: set_chord_from_scale_position, then play()
play_scale_position(t, scale_position) ==
    LET play(chord) ==
            send_note_on(release(t), {chord[i] : i \in 1..Len(chord)},
                         t.attr["velocity"])
    IN  play(construct_chord(t, scale_position))

(***************************************************************************)
(* The action vocabulary.  An action tuple is <<name, obj, params...>>.    *)
(***************************************************************************)
Name(cmd) == cmd[1]

\* the first parameter: the key of an attribute command, the position of
\* play_scale_position
Key(cmd) == cmd[3]

\* SetAttribute.__init__ / DecrementAttribute.__init__: the stored _value
Value(cmd) == IF Name(cmd) = "dec" THEN 0 - cmd[4] ELSE cmd[4]

\* Command.revert is False unless the class defines revert; CommitAttribute
\* is given a revert that does nothing
HasRevert(cmd) == Name(cmd) \in {"inc", "dec", "play_scale_position", "commit"}

\* Instrument.set_next: a value that is false is not stored, and
\* unset_next(value) finds no such key in _next
set_next(t, key, value) ==
    IF value = 0 THEN t
    ELSE [t EXCEPT !.next = (key :> value) @@ @]

\* Instrument.commit
commit(t, key) ==
    IF key \in DOMAIN t.next
    THEN SetAttr([t EXCEPT !.next = [k \in DOMAIN @ \ {key} |-> @[k]]],
                 key, t.next[key])
    ELSE t

\* a group key that tells the values of "set" and "set_next" apart
GroupBy_by_value(cmd) ==
    CASE Name(cmd) \in {"inc", "dec"} -> <<Name(cmd), cmd[2], Key(cmd), Value(cmd)>>
      [] Name(cmd) = "play_scale_position" -> <<Name(cmd), cmd[2]>>
      [] Name(cmd) = "mode" -> <<Name(cmd), cmd[2], "mode">>
      [] Name(cmd) = "send_cc" -> <<Name(cmd), cmd[2], cmd[3], cmd[4]>>
      [] Name(cmd) = "commit" -> <<Name(cmd), cmd[2], Key(cmd)>>
      [] OTHER -> <<Name(cmd), cmd[2], Key(cmd), Value(cmd)>>

\* <Class>.group_by()
GroupBy(cmd) ==
    CASE Name(cmd) \in {"inc", "dec"} -> <<Name(cmd), cmd[2], Key(cmd), Value(cmd)>>
      [] Name(cmd) = "play_scale_position" -> <<Name(cmd), cmd[2]>>
      [] Name(cmd) = "mode" -> <<Name(cmd), cmd[2], "mode">>
      [] Name(cmd) = "send_cc" -> <<Name(cmd), cmd[2], cmd[3], cmd[4]>>
      [] OTHER -> <<Name(cmd), cmd[2], Key(cmd)>>

\* <Class>.execute(); send_cc sends a message and leaves the Instrument as
\* it is
Execute(cmd, t) ==
    CASE Name(cmd) \in {"inc", "dec"} ->
            SetAttr(t, Key(cmd), GetAttr(t, Key(cmd)) + Value(cmd))
      [] Name(cmd) = "play_scale_position" -> play_scale_position(t, Key(cmd))
      [] Name(cmd) = "mode" -> [t EXCEPT !.mode = cmd[3]]
      [] Name(cmd) = "set_next" -> set_next(t, Key(cmd), Value(cmd))
      [] Name(cmd) = "commit" -> commit(t, Key(cmd))
      [] Name(cmd) = "send_cc" -> t
      [] OTHER -> SetAttr(t, Key(cmd), Value(cmd))

\* a revert that repeats the effect instead of taking it back
Revert_repeat(cmd, t) ==
    IF Name(cmd) = "play_scale_position" THEN play_scale_position(t, Key(cmd))
    ELSE SetAttr(t, Key(cmd), GetAttr(t, Key(cmd)) + Value(cmd))

\* <Class>.revert()
Revert(cmd, t) ==
    IF Name(cmd) = "play_scale_position" THEN release(t)
    ELSE IF Name(cmd) = "commit" THEN t
    ELSE SetAttr(t, Key(cmd), GetAttr(t, Key(cmd)) - Value(cmd))

\* the command classes the Invoker was constructed with
CommandClasses == {"set", "set_next", "commit", "inc", "dec", "send_cc",
                   "play_scale_position", "mode"}

(***************************************************************************)
(* The Invoker.  A Command object is [cmd |-> action tuple, id |-> n]: two *)
(* Commands are the same object iff both fields agree.                     *)
(***************************************************************************)
NoCommand == [cmd |-> <<>>, id |-> 0]

Command(cmd, id) == [cmd |-> cmd, id |-> id]

\* self._commands.get(cmd) finds a Command
Registered(cs, cmd) == cmd \in DOMAIN cs

\* the id of the next Command object constructed for cmd
NewId(cs, cmd) == IF cmd \in DOMAIN cs THEN cs[cmd] + 1 ELSE 1

\* self._command_stacks.get(stack_id), <<>> for None
StackOf(stacks, g) == IF g \in DOMAIN stacks THEN stacks[g] ELSE <<>>

\* self._command_stack_limits.get(stack_id, 0)
LimitOf(limits, g) == IF g \in DOMAIN limits THEN limits[g] ELSE 0

\* d[k] = v on a dict
Put(d, k, v) == IF k \in DOMAIN d THEN [d EXCEPT ![k] = v] ELSE d @@ (k :> v)

\* the state the Invoker's methods read and write
State == [commands |-> commands, stacks |-> command_stacks,
          limits |-> command_stack_limits, target |-> target]

\* add_command without the lookup of an existing Command
add_command_renew(S, cmd, stack_limit) ==
    LET command == Command(cmd, NewId(S.commands, cmd))
        g == GroupBy(cmd)
    IN  [S |-> [S EXCEPT
                  !.commands = Put(@, cmd, command.id),
                  !.stacks = IF g \in DOMAIN @ THEN @ ELSE @ @@ (g :> <<>>),
                  !.limits = Put(@, g, stack_limit)],
         exc |-> "none", ret |-> command]

\* add_command that keeps the limit a group already has
add_command_keep_limit(S, cmd, stack_limit) ==
    IF Registered(S.commands, cmd)
    THEN [S |-> S, exc |-> "none", ret |-> Command(cmd, S.commands[cmd])]
    ELSE IF Name(cmd) \notin CommandClasses
    THEN [S |-> S, exc |-> "KeyError", ret |-> NoCommand]
    ELSE LET command == Command(cmd, NewId(S.commands, cmd))
             g == GroupBy(cmd)
         IN  [S |-> [S EXCEPT
                       !.commands = Put(@, cmd, command.id),
                       !.stacks = IF g \in DOMAIN @ THEN @ ELSE @ @@ (g :> <<>>),
                       !.limits = IF g \in DOMAIN @ THEN @ ELSE @ @@ (g :> stack_limit)],
              exc |-> "none", ret |-> command]

\* Invoker.add_command
add_command(S, cmd, stack_limit) ==
    IF Registered(S.commands, cmd)
    THEN [S |-> S, exc |-> "none", ret |-> Command(cmd, S.commands[cmd])]
    ELSE IF Name(cmd) \notin CommandClasses
    THEN [S |-> S, exc |-> "KeyError", ret |-> NoCommand]
    ELSE LET command == Command(cmd, NewId(S.commands, cmd))
             g == GroupBy(cmd)
         IN  [S |-> [S EXCEPT
                       !.commands = Put(@, cmd, command.id),
                       !.stacks = IF g \in DOMAIN @ THEN @ ELSE @ @@ (g :> <<>>),
                       !.limits = Put(@, g, stack_limit)],
              exc |-> "none", ret |-> command]

\* stack[:i] + stack[i+1:]  (i counted from 1)
RemoveAt(stack, i) ==
    [j \in 1..(Len(stack) - 1) |-> IF j < i THEN stack[j] ELSE stack[j + 1]]

\* the position of the first entry of stack that is command, 0 if there is none
IndexOf(stack, command) ==
    IF \E j \in 1..Len(stack) : stack[j] = command
    THEN CHOOSE j \in 1..Len(stack) :
            /\ stack[j] = command
            /\ \A k \in 1..(j - 1) : stack[k] # command
    ELSE 0

\* _undo that replays the entry below the top wherever the undone entry is
undo_replay_always(command, stack, i_cmd, t) ==
    LET i == IF i_cmd = 0 /\ command # NoCommand
             THEN IndexOf(stack, command) ELSE i_cmd
    IN  IF stack = <<>> \/ i = 0 \/ Len(stack) = 1
        THEN [stack |-> stack, target |-> t, exc |-> "UndoError",
              command |-> command, i_cmd |-> i]
        ELSE LET c == IF command # NoCommand THEN command ELSE stack[i]
             IN  [stack |-> RemoveAt(stack, i),
                  target |-> IF HasRevert(c.cmd) THEN Revert(c.cmd, t)
                             ELSE Execute(stack[2].cmd, t),
                  exc |-> "none", command |-> c, i_cmd |-> i]

\* _undo that reverts only the entry at the top
undo_revert_top_only(command, stack, i_cmd, t) ==
    LET i == IF i_cmd = 0 /\ command # NoCommand
             THEN IndexOf(stack, command) ELSE i_cmd
    IN  IF stack = <<>> \/ i = 0
        THEN [stack |-> stack, target |-> t, exc |-> "UndoError",
              command |-> command, i_cmd |-> i]
        ELSE LET c == IF command # NoCommand THEN command ELSE stack[i]
             IN  IF i > 1
                 THEN [stack |-> RemoveAt(stack, i), target |-> t,
                       exc |-> "none", command |-> c, i_cmd |-> i]
                 ELSE IF HasRevert(c.cmd)
                 THEN [stack |-> RemoveAt(stack, i), target |-> Revert(c.cmd, t),
                       exc |-> "none", command |-> c, i_cmd |-> i]
                 ELSE IF Len(stack) = 1
                 THEN [stack |-> stack, target |-> t, exc |-> "UndoError",
                       command |-> c, i_cmd |-> i]
                 ELSE [stack |-> RemoveAt(stack, i),
                       target |-> Execute(stack[2].cmd, t),
                       exc |-> "none", command |-> c, i_cmd |-> i]

\* _undo whose search loop has no else branch: when command is not in the
\* stack, i_cmd is left at the last index
undo_no_else(command, stack, i_cmd, t) ==
    IF stack = <<>>
    THEN [stack |-> stack, target |-> t, exc |-> "UndoError",
          command |-> command, i_cmd |-> i_cmd]
    ELSE LET found == IF command # NoCommand THEN IndexOf(stack, command) ELSE 0
             i == IF i_cmd = 0 /\ command # NoCommand
                  THEN (IF found = 0 THEN Len(stack) ELSE found)
                  ELSE i_cmd
             c == IF command # NoCommand THEN command ELSE stack[i_cmd]
         IN  IF HasRevert(c.cmd)
             THEN [stack |-> RemoveAt(stack, i), target |-> Revert(c.cmd, t),
                   exc |-> "none", command |-> c, i_cmd |-> i]
             ELSE IF i = 1
             THEN IF Len(stack) = 1
                  THEN [stack |-> stack, target |-> t, exc |-> "UndoError",
                        command |-> c, i_cmd |-> i]
                  ELSE [stack |-> RemoveAt(stack, i),
                        target |-> Execute(stack[2].cmd, t),
                        exc |-> "none", command |-> c, i_cmd |-> i]
             ELSE [stack |-> RemoveAt(stack, i), target |-> t,
                   exc |-> "none", command |-> c, i_cmd |-> i]

\* _undo without the check for the only entry: the entry is removed and
\* nothing is replayed
undo_pop_bottom(command, stack, i_cmd, t) ==
    IF stack = <<>>
    THEN [stack |-> stack, target |-> t, exc |-> "UndoError",
          command |-> command, i_cmd |-> i_cmd]
    ELSE IF i_cmd = 0 /\ command # NoCommand /\ IndexOf(stack, command) = 0
    THEN [stack |-> stack, target |-> t, exc |-> "UndoError",
          command |-> command, i_cmd |-> Len(stack)]
    ELSE LET i == IF i_cmd = 0 /\ command # NoCommand
                  THEN IndexOf(stack, command) ELSE i_cmd
             c == IF command # NoCommand THEN command ELSE stack[i_cmd]
         IN  [stack |-> RemoveAt(stack, i),
              target |-> IF HasRevert(c.cmd) THEN Revert(c.cmd, t)
                         ELSE IF i = 1 /\ Len(stack) > 1
                         THEN Execute(stack[2].cmd, t)
                         ELSE t,
              exc |-> "none", command |-> c, i_cmd |-> i]

\* _undo that replays stack[0], the entry being undone, instead of stack[1]
undo_replay_self(command, stack, i_cmd, t) ==
    IF stack = <<>>
    THEN [stack |-> stack, target |-> t, exc |-> "UndoError",
          command |-> command, i_cmd |-> i_cmd]
    ELSE IF i_cmd = 0 /\ command # NoCommand /\ IndexOf(stack, command) = 0
    THEN [stack |-> stack, target |-> t, exc |-> "UndoError",
          command |-> command, i_cmd |-> Len(stack)]
    ELSE LET i == IF i_cmd = 0 /\ command # NoCommand
                  THEN IndexOf(stack, command) ELSE i_cmd
             c == IF command # NoCommand THEN command ELSE stack[i_cmd]
         IN  IF HasRevert(c.cmd)
             THEN [stack |-> RemoveAt(stack, i), target |-> Revert(c.cmd, t),
                   exc |-> "none", command |-> c, i_cmd |-> i]
             ELSE IF i = 1
             THEN IF Len(stack) = 1
                  THEN [stack |-> stack, target |-> t, exc |-> "UndoError",
                        command |-> c, i_cmd |-> i]
                  ELSE [stack |-> RemoveAt(stack, i),
                        target |-> Execute(stack[1].cmd, t),
                        exc |-> "none", command |-> c, i_cmd |-> i]
             ELSE [stack |-> RemoveAt(stack, i), target |-> t,
                   exc |-> "none", command |-> c, i_cmd |-> i]

\* Invoker._undo; i_cmd is counted from 1 here, 0 stands for the default -1
\* and stack = <<>> also stands for a missing stack (None).  The result holds
\* the returned stack, the target afterwards, and the command and i_cmd the
\* method ended with.
undo_(command, stack, i_cmd, t) ==
    IF stack = <<>>
    THEN [stack |-> stack, target |-> t, exc |-> "UndoError",
          command |-> command, i_cmd |-> i_cmd]
    ELSE IF i_cmd = 0 /\ command # NoCommand /\ IndexOf(stack, command) = 0
    THEN [stack |-> stack, target |-> t, exc |-> "UndoError",
          command |-> command, i_cmd |-> Len(stack)]
    ELSE LET i == IF i_cmd = 0 /\ command # NoCommand
                  THEN IndexOf(stack, command) ELSE i_cmd
             c == IF command # NoCommand THEN command ELSE stack[i_cmd]
         IN  IF HasRevert(c.cmd)
             THEN [stack |-> RemoveAt(stack, i), target |-> Revert(c.cmd, t),
                   exc |-> "none", command |-> c, i_cmd |-> i]
             ELSE IF i = 1
             THEN IF Len(stack) = 1
                  THEN [stack |-> stack, target |-> t, exc |-> "UndoError",
                        command |-> c, i_cmd |-> i]
                  ELSE [stack |-> RemoveAt(stack, i),
                        target |-> Execute(stack[2].cmd, t),
                        exc |-> "none", command |-> c, i_cmd |-> i]
             ELSE [stack |-> RemoveAt(stack, i), target |-> t,
                   exc |-> "none", command |-> c, i_cmd |-> i]

\* the loop with "len(stack) > stack_limit" as its condition
RECURSIVE Evict_late(_, _, _, _)
Evict_late(stack, t, stack_limit, n) ==
    IF Len(stack) > stack_limit
    THEN LET again(r) ==
                 IF r.exc # "none"
                 THEN [stack |-> stack, target |-> r.target, exc |-> r.exc,
                       evicted |-> n]
                 ELSE Evict_late(r.stack, r.target, stack_limit, n + 1)
         IN  again(undo_(NoCommand, stack, 1, t))
    ELSE [stack |-> stack, target |-> t, exc |-> "none", evicted |-> n]

\* the loop evicting the bottom entry instead of the entry at index 0
RECURSIVE Evict_bottom(_, _, _, _)
Evict_bottom(stack, t, stack_limit, n) ==
    IF Len(stack) >= stack_limit
    THEN LET again(r) ==
                 IF r.exc # "none"
                 THEN [stack |-> stack, target |-> r.target, exc |-> r.exc,
                       evicted |-> n]
                 ELSE Evict_bottom(r.stack, r.target, stack_limit, n + 1)
         IN  again(undo_(NoCommand, stack, Len(stack), t))
    ELSE [stack |-> stack, target |-> t, exc |-> "none", evicted |-> n]

\* the loop "while len(stack) >= stack_limit: stack = self._undo(None, stack, 0)";
\* n counts the entries evicted so far
RECURSIVE Evict(_, _, _, _)
Evict(stack, t, stack_limit, n) ==
    IF Len(stack) >= stack_limit
    THEN LET again(r) ==
                 IF r.exc # "none"
                 THEN [stack |-> stack, target |-> r.target, exc |-> r.exc,
                       evicted |-> n]
                 ELSE Evict(r.stack, r.target, stack_limit, n + 1)
         IN  again(undo_(NoCommand, stack, 1, t))
    ELSE [stack |-> stack, target |-> t, exc |-> "none", evicted |-> n]

\* do that registers an unknown command whatever autoregister_if_unknown is
do_register_always(S, cmd, autoregister_if_unknown, stack_limit_if_unknown) ==
    LET stack_id == GroupBy(cmd)
        push(S1, ev) ==
            IF ev.exc # "none"
            THEN [S |-> [S1 EXCEPT !.target = ev.target], exc |-> ev.exc,
                  evicted |-> ev.evicted]
            ELSE [S |-> [S1 EXCEPT
                           !.target = Execute(cmd, ev.target),
                           !.stacks[stack_id] =
                               <<Command(cmd, S1.commands[cmd])>> \o ev.stack],
                  exc |-> "none", evicted |-> ev.evicted]
        found(reg) ==
            IF reg.exc # "none" THEN [S |-> reg.S, exc |-> reg.exc, evicted |-> 0]
            ELSE push(reg.S,
                      IF LimitOf(reg.S.limits, stack_id) > 0
                      THEN Evict(reg.S.stacks[stack_id], reg.S.target,
                                 LimitOf(reg.S.limits, stack_id), 0)
                      ELSE [stack |-> reg.S.stacks[stack_id],
                            target |-> reg.S.target,
                            exc |-> "none", evicted |-> 0])
    IN  found(IF Registered(S.commands, cmd) THEN [S |-> S, exc |-> "none"]
              ELSE add_command(S, cmd, stack_limit_if_unknown))

\* Invoker.do
do(S, cmd, autoregister_if_unknown, stack_limit_if_unknown) ==
    LET stack_id == GroupBy(cmd)
        \* command.execute() and the store of (command, *stack), once the
        \* loop has ended with ev in the state S1
        push(S1, ev) ==
            IF ev.exc # "none"
            THEN [S |-> [S1 EXCEPT !.target = ev.target], exc |-> ev.exc,
                  evicted |-> ev.evicted]
            ELSE [S |-> [S1 EXCEPT
                           !.target = Execute(cmd, ev.target),
                           !.stacks[stack_id] =
                               <<Command(cmd, S1.commands[cmd])>> \o ev.stack],
                  exc |-> "none", evicted |-> ev.evicted]
        \* the method from "stack_id = command.group_by()" on, once the
        \* lookup has ended with reg
        found(reg) ==
            IF reg.exc # "none" THEN [S |-> reg.S, exc |-> reg.exc, evicted |-> 0]
            ELSE push(reg.S,
                      IF LimitOf(reg.S.limits, stack_id) > 0
                      THEN Evict(reg.S.stacks[stack_id], reg.S.target,
                                 LimitOf(reg.S.limits, stack_id), 0)
                      ELSE [stack |-> reg.S.stacks[stack_id],
                            target |-> reg.S.target,
                            exc |-> "none", evicted |-> 0])
    IN  found(IF Registered(S.commands, cmd) THEN [S |-> S, exc |-> "none"]
              ELSE IF autoregister_if_unknown
              THEN add_command(S, cmd, stack_limit_if_unknown)
              ELSE [S |-> S, exc |-> "KeyError"])

\* Invoker.undo
undo(S, cmd) ==
    IF ~Registered(S.commands, cmd)
    THEN [S |-> S, exc |-> "KeyError", ret |-> NoCommand, i_cmd |-> 0]
    ELSE LET command == Command(cmd, S.commands[cmd])
             stack_id == GroupBy(cmd)
             store(r) ==
                 IF r.exc # "none"
                 THEN [S |-> [S EXCEPT !.target = r.target], exc |-> r.exc,
                       ret |-> NoCommand, i_cmd |-> 0]
                 ELSE [S |-> [S EXCEPT !.target = r.target,
                                       !.stacks[stack_id] = r.stack],
                       exc |-> "none", ret |-> command, i_cmd |-> r.i_cmd]
         IN  store(undo_(command, StackOf(S.stacks, stack_id), 0, S.target))

(***************************************************************************)
(* Numbers.  The floats of the axis code are modelled as exact fractions   *)
(* <<numerator, denominator>> in lowest terms with a positive denominator: *)
(* the sums, products and quotients are those of the source without the    *)
(* rounding error of binary floating point.                                *)
(***************************************************************************)
RECURSIVE GCD(_, _)
GCD(a, b) == IF b = 0 THEN a ELSE GCD(b, a % b)

Abs(n) == IF n < 0 THEN 0 - n ELSE n

\* the number n/d, for d # 0
Rat(n, d) ==
    LET g == GCD(Abs(n), Abs(d))
        sign == IF d < 0 THEN -1 ELSE 1
    IN  <<(sign * n) \div g, Abs(d) \div g>>

RAdd(a, b) == Rat(a[1] * b[2] + b[1] * a[2], a[2] * b[2])

RSub(a, b) == Rat(a[1] * b[2] - b[1] * a[2], a[2] * b[2])

RMul(a, b) == Rat(a[1] * b[1], a[2] * b[2])

\* a / b, for b # 0
RDiv(a, b) == Rat(a[1] * b[2], a[2] * b[1])

\* a < b
RLess(a, b) == a[1] * b[2] < b[1] * a[2]

\* a ** k for an integer k >= 0; 0 ** 0 is 1 as in Python
RECURSIVE RPow(_, _)
RPow(a, k) == IF k = 0 THEN Rat(1, 1) ELSE RMul(a, RPow(a, k - 1))

\* round(a, 3): the nearest multiple of 1/1000, a tie going to the even one
Round3(a) ==
    LET q == (1000 * a[1]) \div a[2]
        rem == 1000 * a[1] - q * a[2]
    IN  Rat(IF 2 * rem < a[2] THEN q
            ELSE IF 2 * rem > a[2] THEN q + 1
            ELSE IF q % 2 = 0 THEN q ELSE q + 1,
            1000)

\* sorted(steps)
Sorted(steps) == SortSeq(steps, RLess)

\* a number as a component of an action tuple: a float that equals an integer
\* compares and hashes as that integer, so that ("set", obj, "voicing", 2.0)
\* and ("set", obj, "voicing", 2) are one key of Invoker._commands
Number(r) == IF r[2] = 1 THEN r[1] ELSE r

\* value_in_range with a step that equals the percent taken as greater
value_in_range_first_ge(percent, value_at_min, value_at_max, curve, inclusive, steps) ==
    LET raise == [exc |-> "ValueError", value |-> Rat(0, 1)]
        return(v) == [exc |-> "none", value |-> v]
        sorted == Sorted(steps)
        n == Len(steps)
        x == RDiv(RSub(value_at_max, value_at_min), Rat(n, 1))
        at(i) == RAdd(RMul(Rat(i, 1), x), value_at_min)
        greater == {i \in 1..n : ~RLess(sorted[i], percent)}
    IN  IF RLess(percent, Rat(0, 1)) \/ RLess(Rat(1, 1), percent) THEN raise
        ELSE IF curve < 0 THEN raise
        ELSE IF steps = <<>>
        THEN return(RAdd(RMul(RSub(value_at_max, value_at_min), RPow(percent, curve)),
                         value_at_min))
        ELSE IF greater # {}
        THEN return(at((CHOOSE i \in greater : \A j \in greater : i <= j) - 1))
        ELSE IF inclusive THEN return(value_at_max)
        ELSE return(at(n - 1))

\* value_in_range with the last index counted one too far
value_in_range_past_end(percent, value_at_min, value_at_max, curve, inclusive, steps) ==
    LET raise == [exc |-> "ValueError", value |-> Rat(0, 1)]
        return(v) == [exc |-> "none", value |-> v]
        sorted == Sorted(steps)
        n == Len(steps)
        x == RDiv(RSub(value_at_max, value_at_min), Rat(n, 1))
        at(i) == RAdd(RMul(Rat(i, 1), x), value_at_min)
        greater == {i \in 1..n : RLess(percent, sorted[i])}
    IN  IF RLess(percent, Rat(0, 1)) \/ RLess(Rat(1, 1), percent) THEN raise
        ELSE IF curve < 0 THEN raise
        ELSE IF steps = <<>>
        THEN return(RAdd(RMul(RSub(value_at_max, value_at_min), RPow(percent, curve)),
                         value_at_min))
        ELSE IF greater # {}
        THEN return(at((CHOOSE i \in greater : \A j \in greater : i <= j) - 1))
        ELSE return(at(n))

\* value_in_range(percent, value_at_min, value_at_max, curve, inclusive,
\* steps) for an integer curve: [exc, value], value being the number
\* returned when exc is "none"
value_in_range(percent, value_at_min, value_at_max, curve, inclusive, steps) ==
    LET raise == [exc |-> "ValueError", value |-> Rat(0, 1)]
        return(v) == [exc |-> "none", value |-> v]
        sorted == Sorted(steps)
        n == Len(steps)
        x == RDiv(RSub(value_at_max, value_at_min), Rat(n, 1))
        at(i) == RAdd(RMul(Rat(i, 1), x), value_at_min)
        \* the positions i + 1 of "for i, step in enumerate(steps)" at which
        \* percent < step
        greater == {i \in 1..n : RLess(percent, sorted[i])}
    IN  IF RLess(percent, Rat(0, 1)) \/ RLess(Rat(1, 1), percent) THEN raise
        ELSE IF curve < 0 THEN raise
        ELSE IF steps = <<>>
        THEN return(RAdd(RMul(RSub(value_at_max, value_at_min), RPow(percent, curve)),
                         value_at_min))
        ELSE IF greater # {}
        THEN return(at((CHOOSE i \in greater : \A j \in greater : i <= j) - 1))
        ELSE IF inclusive THEN return(value_at_max)
        ELSE return(at(n - 1))

(***************************************************************************)
(* The InputHandler.  A button event is [type, joy, button] with type      *)
(* "down" for JOYBUTTONDOWN and "up" for JOYBUTTONUP; a hat event is       *)
(* [type, joy, hat, value] with type "hat" and value a Vector.  A binding  *)
(* is [do, behavior, on_release]; mappings is mode -> keymap, a keymap     *)
(* having buttons: id -> tuple of bindings and hats: hat key -> tuple of   *)
(* bindings, either of which may be missing.  An axis event is [type, joy, *)
(* axis, value] with type "axis"; a keymap may have axes: id -> tuple of   *)
(* axis bindings, and axis_calibration is axis -> [min, max].              *)
(***************************************************************************)
JOYBUTTONDOWN == "down"
JOYBUTTONUP == "up"
JOYHATMOTION == "hat"
JOYAXISMOTION == "axis"

\* class Vector, a pair <<x, y>>
Vector(x, y) == <<x, y>>

NEUTRAL == Vector(0, 0)

\* Vector.is_adjacent_to
is_adjacent_to(self, other) ==
    IF self = NEUTRAL \/ other = NEUTRAL THEN FALSE
    ELSE LET dx == IF self[1] >= other[1] THEN self[1] - other[1]
                   ELSE other[1] - self[1]
             dy == IF self[2] >= other[2] THEN self[2] - other[2]
                   ELSE other[2] - self[2]
             diff == IF dx <= dy THEN <<dx, dy>> ELSE <<dy, dx>>
         IN  diff[1] = 0 /\ diff[2] = 1

\* Vector.is_cardinal
is_cardinal(self) == (self[1] # 0) # (self[2] # 0)

\* Vector.is_diagonal
is_diagonal(self) == self[1] # 0 /\ self[2] # 0

\* the test fixture HatEvent
HatEvent(value, hat, joy) ==
    [type |-> JOYHATMOTION, joy |-> joy, hat |-> hat, value |-> value]

ButtonEvent(button, is_down, joy) ==
    [type |-> IF is_down THEN JOYBUTTONDOWN ELSE JOYBUTTONUP,
     joy |-> joy, button |-> button]

\* an axis event: value is the raw reading, a number
AxisEvent(value, axis, joy) ==
    [type |-> JOYAXISMOTION, joy |-> joy, axis |-> axis, value |-> value]

\* a binding of an axis: the keyword arguments of value_in_range and "do"
AxisBinding(do_, value_at_min, value_at_max, curve, inclusive, steps) ==
    [do |-> do_, value_at_min |-> value_at_min, value_at_max |-> value_at_max,
     curve |-> curve, inclusive |-> inclusive, steps |-> steps]

Binding(do_, behavior, on_release) ==
    [do |-> do_, behavior |-> behavior, on_release |-> on_release]

\* InputHandler.__init__ for a configuration without hat calibration
InputHandlerInit(mappings) ==
    [joystick_index |-> -1, mappings |-> mappings, toggle_states |-> {},
     most_recent_hat_vector |-> [h \in {0} |-> NEUTRAL],
     hat_calibration |-> <<>>, axis_calibration |-> <<>>,
     uncalibrated_axes |-> {}]

\* InputHandler.__init__ for config = [mappings, hat_calibration,
\* axis_calibration], where hat_calibration is hat -> [easy_diagonals] and
\* axis_calibration is axis -> [min, max]
InputHandler(config) ==
    [InputHandlerInit(config.mappings) EXCEPT
        !.hat_calibration = config.hat_calibration,
        !.axis_calibration = config.axis_calibration]

\* InputHandler._hat_key
hat_key(hat, value) == <<hat, value[1], value[2]>>

\* InputHandler._get_hat_actions
get_hat_actions(keymap, key) ==
    IF "hats" \in DOMAIN keymap /\ key \in DOMAIN keymap.hats
    THEN keymap.hats[key] ELSE <<>>

\* one toggle state for a binding whatever the mode
handle_toggle_no_mode(H, mode, t_args) ==
    LET t_state == t_args \in H.toggle_states
    IN  [H |-> [H EXCEPT !.toggle_states =
                    IF t_state THEN @ \ {t_args} ELSE @ \cup {t_args}],
         list |-> IF ~t_state THEN "to_do" ELSE "to_undo"]

\* InputHandler._handle_toggle: toggle_states holds the keys whose state is
\* True; the result is the handler afterwards and the list to append to
handle_toggle(H, mode, t_args) ==
    LET key == <<mode>> \o t_args
        t_state == key \in H.toggle_states
    IN  [H |-> [H EXCEPT !.toggle_states =
                    IF t_state THEN @ \ {key} ELSE @ \cup {key}],
         list |-> IF ~t_state THEN "to_do" ELSE "to_undo"]

\* the loop over the bindings of a button in InputHandler.update, from
\* binding i on; acc is [H, to_do, to_undo]
RECURSIVE ButtonActions(_, _, _, _, _)
ButtonActions(acc, mode, event, actions, i) ==
    IF i > Len(actions) THEN acc
    ELSE
    LET data == actions[i]
        action_dir == IF data.on_release THEN JOYBUTTONUP ELSE JOYBUTTONDOWN
        next ==
            IF data.behavior = "momentary"
            THEN IF event.type = JOYBUTTONDOWN
                 THEN [acc EXCEPT !.to_do = Append(@, data.do)]
                 ELSE [acc EXCEPT !.to_undo = Append(@, data.do)]
            ELSE IF action_dir # event.type THEN acc
            ELSE IF data.behavior = "latch"
            THEN [acc EXCEPT !.to_do = Append(@, data.do)]
            ELSE IF data.behavior = "toggle"
            THEN LET h == handle_toggle(acc.H, mode, <<"buttons", event.button, i - 1>>)
                 IN  IF h.list = "to_do"
                     THEN [acc EXCEPT !.H = h.H, !.to_do = Append(@, data.do)]
                     ELSE [acc EXCEPT !.H = h.H, !.to_undo = Append(@, data.do)]
            ELSE acc
    IN  ButtonActions(next, mode, event, actions, i + 1)

\* the loops with a latch that fires when the hat moves to its direction
\* and when it moves from it, whatever on_release
RECURSIVE HatActions_latch_both(_, _, _, _, _, _)
HatActions_latch_both(acc, mode, key, actions, i, leaving) ==
    IF i > Len(actions) THEN acc
    ELSE
    LET data == actions[i]
        toggled(h) ==
            IF h.list = "to_do"
            THEN [acc EXCEPT !.H = h.H, !.to_do = Append(@, data.do)]
            ELSE [acc EXCEPT !.H = h.H, !.to_undo = Append(@, data.do)]
        next ==
            IF data.behavior = "momentary"
            THEN IF leaving
                 THEN [acc EXCEPT !.to_undo = Append(@, data.do)]
                 ELSE [acc EXCEPT !.to_do = Append(@, data.do)]
            ELSE IF data.behavior = "latch"
            THEN [acc EXCEPT !.to_do = Append(@, data.do)]
            ELSE IF data.on_release # leaving THEN acc
            ELSE IF data.behavior = "toggle"
            THEN toggled(handle_toggle(acc.H, mode, <<"hats", key, i - 1>>))
            ELSE acc
    IN  HatActions_latch_both(next, mode, key, actions, i + 1, leaving)

\* the two loops over the bindings of a hat direction in
\* InputHandler.update, from binding i on: leaving is TRUE for the bindings
\* of the direction just moved from, FALSE for those of the direction just
\* moved to
RECURSIVE HatActions(_, _, _, _, _, _)
HatActions(acc, mode, key, actions, i, leaving) ==
    IF i > Len(actions) THEN acc
    ELSE
    LET data == actions[i]
        toggled(h) ==
            IF h.list = "to_do"
            THEN [acc EXCEPT !.H = h.H, !.to_do = Append(@, data.do)]
            ELSE [acc EXCEPT !.H = h.H, !.to_undo = Append(@, data.do)]
        next ==
            IF data.behavior = "momentary"
            THEN IF leaving
                 THEN [acc EXCEPT !.to_undo = Append(@, data.do)]
                 ELSE [acc EXCEPT !.to_do = Append(@, data.do)]
            ELSE IF data.on_release # leaving THEN acc
            ELSE IF data.behavior = "latch"
            THEN [acc EXCEPT !.to_do = Append(@, data.do)]
            ELSE IF data.behavior = "toggle"
            THEN toggled(handle_toggle(acc.H, mode, <<"hats", key, i - 1>>))
            ELSE acc
    IN  HatActions(next, mode, key, actions, i + 1, leaving)

\* the branch in which an event next to the remembered diagonal is dropped
\* but remembered
HatMotion_remember(acc, mode, event) ==
    LET H == acc.H
        keymap == H.mappings[mode]
        has_prev == event.hat \in DOMAIN H.most_recent_hat_vector
        prev_value == H.most_recent_hat_vector[event.hat]
        value == event.value
        easy == /\ event.hat \in DOMAIN H.hat_calibration
                /\ H.hat_calibration[event.hat].easy_diagonals
        moved(a) ==
            LET b == [a EXCEPT !.H.most_recent_hat_vector =
                         Put(@, event.hat, value)]
            IN  IF value = NEUTRAL THEN b
                ELSE HatActions(b, mode, hat_key(event.hat, value),
                                get_hat_actions(keymap, hat_key(event.hat, value)),
                                1, FALSE)
    IN  IF easy /\ ~has_prev THEN [acc EXCEPT !.exc = "AttributeError"]
        ELSE IF easy /\ is_diagonal(prev_value) /\ is_adjacent_to(prev_value, value)
        THEN [acc EXCEPT !.H.most_recent_hat_vector = Put(@, event.hat, value)]
        ELSE IF has_prev
        THEN moved(HatActions(acc, mode, hat_key(event.hat, prev_value),
                              get_hat_actions(keymap, hat_key(event.hat, prev_value)),
                              1, TRUE))
        ELSE moved(acc)

\* the branch of InputHandler.update for a JOYHATMOTION event; the first
\* event of a hat other than hat 0 finds no remembered vector (None), which
\* the test for easy diagonals cannot take (AttributeError)
HatMotion(acc, mode, event) ==
    LET H == acc.H
        keymap == H.mappings[mode]
        has_prev == event.hat \in DOMAIN H.most_recent_hat_vector
        prev_value == H.most_recent_hat_vector[event.hat]
        value == event.value
        easy == /\ event.hat \in DOMAIN H.hat_calibration
                /\ H.hat_calibration[event.hat].easy_diagonals
        moved(a) ==
            LET b == [a EXCEPT !.H.most_recent_hat_vector =
                         Put(@, event.hat, value)]
            IN  IF value = NEUTRAL THEN b
                ELSE HatActions(b, mode, hat_key(event.hat, value),
                                get_hat_actions(keymap, hat_key(event.hat, value)),
                                1, FALSE)
    IN  IF easy /\ ~has_prev THEN [acc EXCEPT !.exc = "AttributeError"]
        ELSE IF easy /\ is_diagonal(prev_value) /\ is_adjacent_to(prev_value, value)
        THEN acc
        ELSE IF has_prev
        THEN moved(HatActions(acc, mode, hat_key(event.hat, prev_value),
                              get_hat_actions(keymap, hat_key(event.hat, prev_value)),
                              1, TRUE))
        ELSE moved(acc)

\* clamp_axis_value that keeps the percent between 0 and 1
clamp_axis_value_clamped(H, axis_id, raw_axis_value) ==
    LET calibration == H.axis_calibration[axis_id]
        percent == RDiv(RSub(Round3(raw_axis_value), calibration.min),
                        RSub(calibration.max, calibration.min))
    IN  IF RLess(percent, Rat(0, 1)) THEN Rat(0, 1)
        ELSE IF RLess(Rat(1, 1), percent) THEN Rat(1, 1)
        ELSE percent

\* InputHandler.clamp_axis_value, for an axis that has a calibration
clamp_axis_value(H, axis_id, raw_axis_value) ==
    LET calibration == H.axis_calibration[axis_id]
    IN  RDiv(RSub(Round3(raw_axis_value), calibration.min),
             RSub(calibration.max, calibration.min))

\* the loop over the bindings of the axis of a JOYAXISMOTION event, from
\* binding i on; an axis without calibration ends it with KeyError and a
\* percent or a curve that value_in_range refuses with ValueError
RECURSIVE AxisActions(_, _, _, _)
AxisActions(acc, event, actions, i) ==
    IF i > Len(actions) THEN acc
    ELSE IF event.axis \notin DOMAIN acc.H.axis_calibration
    THEN [acc EXCEPT !.exc = "KeyError"]
    ELSE LET data == actions[i]
             appended(r) ==
                 IF r.exc # "none" THEN [acc EXCEPT !.exc = r.exc]
                 ELSE AxisActions([acc EXCEPT !.to_do =
                                       Append(@, data.do \o <<Number(r.value)>>)],
                                  event, actions, i + 1)
         IN  appended(value_in_range(
                          clamp_axis_value(acc.H, event.axis, event.value),
                          data.value_at_min, data.value_at_max, data.curve,
                          data.inclusive, data.steps))

\* the branch of InputHandler.update for a JOYAXISMOTION event
AxisMotion(acc, mode, event) ==
    LET keymap == acc.H.mappings[mode]
    IN  AxisActions([acc EXCEPT !.H.uncalibrated_axes = @ \ {event.axis}],
                    event,
                    IF "axes" \in DOMAIN keymap /\ event.axis \in DOMAIN keymap.axes
                    THEN keymap.axes[event.axis] ELSE <<>>,
                    1)

\* the body binding the device of every button-down of another device
HandleEvent_rebind(acc, mode, event) ==
    LET tracked == acc.H.joystick_index
        binds == event.joy # tracked /\ event.type = JOYBUTTONDOWN
    IN  IF event.joy # tracked /\ ~binds THEN acc
        ELSE
        LET acc1 == IF binds THEN [acc EXCEPT !.H.joystick_index = event.joy]
                    ELSE acc
            keymap == acc1.H.mappings[mode]
        IN  IF event.type = JOYHATMOTION THEN HatMotion(acc1, mode, event)
            ELSE ButtonActions(acc1, mode, event,
                               IF "buttons" \in DOMAIN keymap
                                  /\ event.button \in DOMAIN keymap.buttons
                               THEN keymap.buttons[event.button] ELSE <<>>,
                               1)

\* the body leaving the loop pass once the device is bound
HandleEvent_bind_only(acc, mode, event) ==
    LET tracked == acc.H.joystick_index
    IN  IF event.joy # tracked
        THEN IF tracked < 0 /\ event.type = JOYBUTTONDOWN
             THEN [acc EXCEPT !.H.joystick_index = event.joy]
             ELSE acc
        ELSE
        LET keymap == acc.H.mappings[mode]
        IN  IF event.type = JOYHATMOTION THEN HatMotion(acc, mode, event)
            ELSE ButtonActions(acc, mode, event,
                               IF "buttons" \in DOMAIN keymap
                                  /\ event.button \in DOMAIN keymap.buttons
                               THEN keymap.buttons[event.button] ELSE <<>>,
                               1)

\* the body of the loop "for event in events" of InputHandler.update
HandleEvent(acc, mode, event) ==
    LET tracked == acc.H.joystick_index
        binds == event.joy # tracked /\ tracked < 0 /\ event.type = JOYBUTTONDOWN
    IN  IF event.joy # tracked /\ ~binds THEN acc
        ELSE
        LET acc1 == IF binds THEN [acc EXCEPT !.H.joystick_index = event.joy]
                    ELSE acc
            keymap == acc1.H.mappings[mode]
        IN  IF event.type = JOYHATMOTION THEN HatMotion(acc1, mode, event)
            ELSE IF event.type = JOYAXISMOTION THEN AxisMotion(acc1, mode, event)
            ELSE ButtonActions(acc1, mode, event,
                               IF "buttons" \in DOMAIN keymap
                                  /\ event.button \in DOMAIN keymap.buttons
                               THEN keymap.buttons[event.button] ELSE <<>>,
                               1)

\* the loop looking the events that follow a "mode" action up in the mode
\* of that action
RECURSIVE HandleEvents_eager_mode(_, _, _, _)
HandleEvents_eager_mode(acc, mode, events, i) ==
    IF i > Len(events) \/ acc.exc # "none" THEN acc
    ELSE LET a == HandleEvent(acc, mode, events[i])
             n == Len(a.to_do)
         IN  HandleEvents_eager_mode(
                 a,
                 IF n > Len(acc.to_do) /\ a.to_do[n][1] = "mode"
                 THEN a.to_do[n][2] ELSE mode,
                 events, i + 1)

\* the loop "for event in events": an exception ends it
RECURSIVE HandleEvents(_, _, _, _)
HandleEvents(acc, mode, events, i) ==
    IF i > Len(events) \/ acc.exc # "none" THEN acc
    ELSE HandleEvents(HandleEvent(acc, mode, events[i]), mode, events, i + 1)

\* update looking every event up in the bindings of the "default" mode
handler_update_default_mode(H, mode, events) ==
    HandleEvents([H |-> H, to_do |-> <<>>, to_undo |-> <<>>, exc |-> "none"],
                 "default", events, 1)

\* InputHandler.update: the handler afterwards, the response and the
\* exception that ended the call
handler_update(H, mode, events) ==
    HandleEvents([H |-> H, to_do |-> <<>>, to_undo |-> <<>>, exc |-> "none"],
                 mode, events, 1)

(***************************************************************************)
(* The ChordController facade.                                             *)
(***************************************************************************)
STACK_LIMIT == 20

\* obj = self.input_handler if action[0] == "mode" else self.instrument,
\* inserted at index 1 of the action
WithObj(action) ==
    <<action[1], IF action[1] = "mode" THEN IH ELSE INST>>
        \o SubSeq(action, 2, Len(action))

\* the loop over response["to_undo"] of execute_actions: UndoError is passed
\* over, any other exception ends the call
RECURSIVE UndoAll(_, _, _)
UndoAll(S, to_undo, i) ==
    IF i > Len(to_undo) THEN [S |-> S, exc |-> "none"]
    ELSE LET rest(r) ==
                 IF r.exc \in {"none", "UndoError"} THEN UndoAll(r.S, to_undo, i + 1)
                 ELSE [S |-> r.S, exc |-> r.exc]
         IN  rest(undo(S, WithObj(to_undo[i])))

\* the loop over response["to_do"] of execute_actions
RECURSIVE DoAll(_, _, _, _)
DoAll(S, to_do, i, allow_unknown_commands) ==
    IF i > Len(to_do) THEN [S |-> S, exc |-> "none"]
    ELSE LET rest(r) ==
                 IF r.exc = "none" THEN DoAll(r.S, to_do, i + 1, allow_unknown_commands)
                 ELSE [S |-> r.S, exc |-> r.exc]
         IN  rest(do(S, WithObj(to_do[i]), allow_unknown_commands, STACK_LIMIT))

\* every to_do before every to_undo
execute_actions_do_first(S, response) ==
    LET to_undo(d) ==
            IF d.exc # "none" THEN d
            ELSE UndoAll(d.S, response.to_undo, 1)
    IN  to_undo(DoAll(S, response.to_do, 1, TRUE))

\* an unregistered to_do action refused
execute_actions_known_only(S, response) ==
    LET to_do(u) ==
            IF u.exc # "none" THEN u
            ELSE DoAll(u.S, response.to_do, 1, FALSE)
    IN  to_do(UndoAll(S, response.to_undo, 1))

\* ChordController.execute_actions
execute_actions(S, response) ==
    LET to_do(u) ==
            IF u.exc # "none" THEN u
            ELSE DoAll(u.S, response.to_do, 1, TRUE)
    IN  to_do(UndoAll(S, response.to_undo, 1))

\* ChordController.update: F is [S, H], the Invoker with its target and the
\* InputHandler
controller_update(F, events) ==
    LET executed(h, response, e) ==
            [F |-> [S |-> e.S, H |-> h.H], response |-> response, exc |-> e.exc]
        scanned(h) ==
            IF h.exc # "none"
            THEN executed(h, [to_do |-> <<>>, to_undo |-> <<>>],
                          [S |-> F.S, exc |-> h.exc])
            ELSE
            executed(h, [to_do |-> h.to_do, to_undo |-> h.to_undo],
                     execute_actions(F.S, [to_do |-> h.to_do, to_undo |-> h.to_undo]))
    IN  scanned(handler_update(F.H, F.S.target.mode, events))

\* commands_from_input_mapping, as the set of the "do" of every binding of
\* the hats and the buttons, and of the "do" of every binding of the axes
\* with value_at_min and with value_at_max
commands_from_input_mapping(mapping) ==
    UNION {UNION {{mapping[x][k][i].do : i \in 1..Len(mapping[x][k])} :
                     k \in DOMAIN mapping[x]} :
              x \in {"hats", "buttons"} \cap DOMAIN mapping}
    \cup
    UNION {UNION {UNION {{mapping[x][k][i].do
                             \o <<Number(mapping[x][k][i].value_at_min)>>,
                          mapping[x][k][i].do
                             \o <<Number(mapping[x][k][i].value_at_max)>>} :
                            i \in 1..Len(mapping[x][k])} :
                     k \in DOMAIN mapping[x]} :
              x \in {"axes"} \cap DOMAIN mapping}

\* the first loop of ChordController.__init__ over the commands cmds of the
\* mapping table; acc is [S, is_fallback_needed, exc], and the loop ends with
\* the KeyError of add_command for an action whose name has no command class
RECURSIVE AddMapped(_, _)
AddMapped(acc, cmds) ==
    IF cmds = {} THEN acc
    ELSE LET c == CHOOSE x \in cmds : TRUE
             r == add_command(acc.S, c, STACK_LIMIT)
             g == GroupBy(c)
             needed == /\ Name(c) \in {"set", "set_next"}
                       /\ ~HasRevert(c)
                       /\ g \in DOMAIN r.S.stacks
                       /\ r.S.stacks[g] = <<>>
         IN  IF r.exc # "none" THEN [acc EXCEPT !.exc = r.exc]
             ELSE AddMapped([S |-> r.S,
                             is_fallback_needed |->
                                 IF needed THEN acc.is_fallback_needed \cup {g}
                                 ELSE acc.is_fallback_needed,
                             exc |-> "none"],
                            cmds \ {c})

\* the second loop left out
SeedFallbacks_none(S, groups) == S

\* the second loop of ChordController.__init__: a command carrying the
\* current value of the attribute is registered and done for every group in
\* is_fallback_needed
RECURSIVE SeedFallbacks(_, _)
SeedFallbacks(S, groups) ==
    IF groups = {} THEN S
    ELSE LET x == CHOOSE g \in groups : TRUE
             fallback_arg == x \o <<GetAttr(S.target, x[3])>>
             a == add_command(S, fallback_arg, STACK_LIMIT)
             d == do(a.S, fallback_arg, FALSE, 0)
         IN  SeedFallbacks(d.S, groups \ {x})

\* ChordController.__init__ with a new InputHandler and a new Instrument; exc
\* is the exception that ended it
ChordController(mappings, startup_commands) ==
    LET dos == UNION {commands_from_input_mapping(mappings[m]) : m \in DOMAIN mappings}
        S0 == [commands |-> <<>>, stacks |-> <<>>, limits |-> <<>>,
               target |-> TargetInit]
        started(e) == [S |-> e.S, H |-> InputHandlerInit(mappings), exc |-> e.exc]
        seeded(a) ==
            IF a.exc # "none" THEN started(a)
            ELSE started(execute_actions(
                             SeedFallbacks(a.S, a.is_fallback_needed),
                             [to_do |-> startup_commands, to_undo |-> <<>>]))
    IN  seeded(AddMapped([S |-> S0, is_fallback_needed |-> {}, exc |-> "none"],
                         {WithObj(d) : d \in dos}))

(***************************************************************************)
(* Direct use of an Invoker, as in TestCommandsAndInvoker: the caller      *)
(* works with one of these sets of action tuples.                          *)
(***************************************************************************)
SetCmds == {<<"set", INST, "quality_modifier", v>> : v \in 0..2}
IncCmds == {<<"inc", INST, "octave", 1>>, <<"inc", INST, "octave", 2>>,
            <<"dec", INST, "octave", 1>>}
PlayCmds == {<<"play_scale_position", INST, 0>>, <<"play_scale_position", INST, 1>>,
             <<"set", INST, "octave", 4>>}
Universes == {SetCmds, IncCmds, PlayCmds}
AllCmds == UNION Universes

\* the caller stays within one of the sets
InUse(cmd) ==
    \E U \in Universes : cmd \in U /\ DOMAIN commands \subseteq U

\* the record of a call: the method, its action tuple, the exception it
\* raised, what it returned (a Command, the response of update), and n: for
\* do the number of entries it evicted, for undo the position (from 1) of the
\* entry it worked on, for update the number of events passed; arg is
\* <<autoregister_if_unknown, stack_limit_if_unknown>> for a do that did not
\* find its command registered (the call reads them in no other case), and
\* the events passed for an update under test
Call(op, cmd, exc, ret, n, arg) ==
    [op |-> op, cmd |-> cmd, exc |-> exc, ret |-> ret, n |-> n, arg |-> arg]

Install(S) ==
    /\ commands' = S.commands
    /\ command_stacks' = S.stacks
    /\ command_stack_limits' = S.limits
    /\ target' = S.target

\* a call of Invoker.add_command
CallAddCommand(cmd, lim) ==
    \E r \in {add_command(State, cmd, lim)} :
        /\ Install(r.S)
        /\ last' = Call("add_command", cmd, r.exc, r.ret, 0, <<>>)

\* a call of Invoker.do
CallDo(cmd, auto, lim) ==
    \E r \in {do(State, cmd, auto, lim)} :
        /\ \A g \in DOMAIN r.S.stacks : Len(r.S.stacks[g]) <= MaxStack
        /\ Install(r.S)
        /\ last' = Call("do", cmd, r.exc, NoCommand, r.evicted,
                        IF Registered(commands, cmd) THEN <<>> ELSE <<auto, lim>>)

\* a call of Invoker.undo
CallUndo(cmd) ==
    \E r \in {undo(State, cmd)} :
        /\ Install(r.S)
        /\ last' = Call("undo", cmd, r.exc, r.ret, r.i_cmd, <<>>)

\* Invoker.__init__ on a new Instrument
Init ==
    /\ commands = <<>>
    /\ command_stacks = <<>>
    /\ command_stack_limits = <<>>
    /\ target = TargetInit
    /\ last = Call("init", <<>>, "none", NoCommand, 0, <<>>)
    /\ run = <<>>
    /\ handler = InputHandlerInit(<<>>)
    /\ held = <<>>

AddCommand ==
    \E cmd \in AllCmds, lim \in 0..MaxLimit :
        /\ InUse(cmd)
        /\ CallAddCommand(cmd, lim)
        /\ UNCHANGED <<run, handler, held>>

Do ==
    \E cmd \in AllCmds, auto \in BOOLEAN, lim \in 0..MaxLimit :
        /\ InUse(cmd)
        /\ CallDo(cmd, auto, lim)
        /\ UNCHANGED <<run, handler, held>>

Undo ==
    \E cmd \in AllCmds :
        /\ InUse(cmd)
        /\ CallUndo(cmd)
        /\ UNCHANGED <<run, handler, held>>

Next == AddCommand \/ Do \/ Undo

Spec == Init /\ [][Next]_vars

(***************************************************************************)
(* A run as in test_invoker_stack_limit: "set" commands of one group are   *)
(* registered, then done one after the other, each with a value not used   *)
(* before, until one more than the group's limit have been done; then the  *)
(* last one is undone.                                                     *)
(***************************************************************************)
NumRunValues == 4   \* number of distinct values the run can set
MaxRunLimit == 3    \* largest stack limit of a run

RunCmds == {<<"set", INST, "quality_modifier", v>> : v \in 1..NumRunValues}
RunGroup == <<"set", INST, "quality_modifier">>
RunLimit == LimitOf(command_stack_limits, RunGroup)

InRun(cmd) == \E i \in 1..Len(run) : run[i] = cmd

LimitAdd ==
    \E cmd \in RunCmds, lim \in 0..MaxRunLimit :
        /\ run = <<>>
        /\ ~Registered(commands, cmd)
        /\ CallAddCommand(cmd, lim)
        /\ UNCHANGED <<run, handler, held>>

LimitDo ==
    \E cmd \in RunCmds :
        /\ Registered(commands, cmd)
        /\ ~InRun(cmd)
        /\ last.op # "undo" /\ last.exc = "none"
        /\ RunLimit > 0 /\ Len(run) <= RunLimit
        /\ \E r \in {do(State, cmd, FALSE, 0)} :
               /\ Install(r.S)
               /\ last' = Call("do", cmd, r.exc, NoCommand, r.evicted, <<>>)
               /\ run' = IF r.exc = "none" THEN Append(run, cmd) ELSE run
               /\ UNCHANGED <<handler, held>>

LimitUndo ==
    /\ last.op = "do" /\ last.exc = "none"
    /\ Len(run) = RunLimit + 1
    /\ CallUndo(run[Len(run)])
    /\ UNCHANGED <<run, handler, held>>

NextLimit == LimitAdd \/ LimitDo \/ LimitUndo

SpecLimit == Init /\ [][NextLimit]_vars

(***************************************************************************)
(* A controller in use: its buttons go down and up in turn, and every      *)
(* batch of events read from the event queue is passed to                  *)
(* ChordController.update.  held lists the buttons of the tracked device   *)
(* that are down, in the order they were pressed.  Every button b is bound *)
(* to a momentary ["set", "quality_modifier", b + 1].  The controller is   *)
(* built either for a small device, whose buttons and batches are explored *)
(* freely while the undo stacks are short, or for a device with many       *)
(* buttons, which are pressed one after the other and released from either *)
(* end of the row of held buttons, so that the undo stack of the attribute *)
(* fills up to the facade's depth limit.                                   *)
(***************************************************************************)
NumButtons == 3     \* buttons of the small device
NumHoldButtons == 20 \* buttons of the large device
NumJoys == 2        \* devices
MaxBatch == 2       \* most events passed to one update
MaxHeldStack == 4   \* longest undo stack explored under the facade

Buttons == 0..(NumButtons - 1)
Joys == 0..(NumJoys - 1)

ButtonDo(b) == <<"set", "quality_modifier", b + 1>>

Mappings ==
    [m \in {"default"} |->
        [buttons |-> [b \in Buttons |->
                         <<Binding(ButtonDo(b), "momentary", FALSE)>>]]]

HoldButtons == 0..(NumHoldButtons - 1)

HoldMappings ==
    [m \in {"default"} |->
        [buttons |-> [b \in HoldButtons |->
                         <<Binding(ButtonDo(b), "momentary", FALSE)>>]]]

Events == {ButtonEvent(b, d, j) : b \in Buttons, d \in BOOLEAN, j \in Joys}

Without(seq, x) == SelectSeq(seq, LAMBDA y : y # x)

IsHeld(h, b) == \E i \in 1..Len(h) : h[i] = b

\* the buttons held after the events from i on, and whether the events can
\* come from the devices: a button that is down cannot go down, one that is
\* up cannot go up
RECURSIVE EnvAfter(_, _, _, _)
EnvAfter(h, tracked, events, i) ==
    IF i > Len(events) THEN [ok |-> TRUE, held |-> h]
    ELSE LET e == events[i]
         IN  IF e.joy = tracked \/ (tracked < 0 /\ e.type = JOYBUTTONDOWN)
             THEN IF e.type = JOYBUTTONDOWN
                  THEN IF IsHeld(h, e.button) THEN [ok |-> FALSE, held |-> h]
                       ELSE EnvAfter(Append(h, e.button), e.joy, events, i + 1)
                  ELSE IF ~IsHeld(h, e.button) THEN [ok |-> FALSE, held |-> h]
                       ELSE EnvAfter(Without(h, e.button), e.joy, events, i + 1)
             ELSE EnvAfter(h, tracked, events, i + 1)

Facade == [S |-> State, H |-> handler]

NoResponse == [to_do |-> <<>>, to_undo |-> <<>>]

InitController ==
    \E m \in {Mappings, HoldMappings} :
    \E c \in {ChordController(m, <<>>)} :
        /\ c.exc = "none"
        /\ commands = c.S.commands
        /\ command_stacks = c.S.stacks
        /\ command_stack_limits = c.S.limits
        /\ target = c.S.target
        /\ handler = c.H
        /\ held = <<>>
        /\ last = Call("init", <<>>, "none", NoResponse, 0, <<>>)
        /\ run = <<>>

\* a call of ChordController.update
CallUpdate(events) ==
    \E env \in {EnvAfter(held, handler.joystick_index, events, 1)} :
    /\ env.ok
    /\ \E r \in {controller_update(Facade, events)} :
        /\ handler.mappings = Mappings =>
              \A g \in DOMAIN r.F.S.stacks : Len(r.F.S.stacks[g]) <= MaxHeldStack
        /\ Install(r.F.S)
        /\ handler' = r.F.H
        /\ held' = env.held
        /\ last' = Call("update", <<>>, r.exc, r.response, Len(events), <<>>)
        /\ UNCHANGED run

\* update with one event of the small device
UpdateOne ==
    /\ handler.mappings = Mappings
    /\ \E e \in Events : CallUpdate(<<e>>)

\* update with several events of the small device
UpdateBatch ==
    /\ handler.mappings = Mappings
    /\ \E n \in 2..MaxBatch : \E events \in [1..n -> Events] : CallUpdate(events)

\* the large device: the button after the one pressed last goes down
HoldPress ==
    /\ handler.mappings = HoldMappings
    /\ LET b == IF held = <<>> THEN 0 ELSE held[Len(held)] + 1
       IN  /\ b \in HoldButtons
           /\ CallUpdate(<<ButtonEvent(b, TRUE, 0)>>)

\* the large device: the button held longest or the one pressed last goes up
HoldRelease ==
    /\ handler.mappings = HoldMappings
    /\ held # <<>>
    /\ \E b \in {held[1], held[Len(held)]} : CallUpdate(<<ButtonEvent(b, FALSE, 0)>>)

NextController == UpdateOne \/ UpdateBatch \/ HoldPress \/ HoldRelease

SpecController == InitController /\ [][NextController]_vars

(***************************************************************************)
(* A controller under test, as in test_default_mode_update: events are     *)
(* made up and passed to ChordController.update whatever the state of the  *)
(* device, so that a button can go up twice in a row or go up without      *)
(* having gone down.  Button 0 is bound to a momentary "set" of            *)
(* quality_modifier to the value the Instrument is constructed with,       *)
(* button 1 to a momentary "set" of it to another value, every other       *)
(* button to a momentary ["inc", "octave", 1].                             *)
(***************************************************************************)
NumFacadeButtons == 3   \* buttons of the device under test
MaxFacadeStack == 2     \* longest undo stack explored under test
MaxFacadeBatch == 2     \* most events passed to one update under test
MaxResponse == 2        \* most to_undo actions passed to execute_actions

FacadeButtons == 0..(NumFacadeButtons - 1)

FacadeDo(b) ==
    CASE b = 0 -> <<"set", "quality_modifier", MAJOR>>
      [] b = 1 -> <<"set", "quality_modifier", MINOR>>
      [] OTHER -> <<"inc", "octave", 1>>

FacadeMappings ==
    [m \in {"default"} |->
        [buttons |-> [b \in FacadeButtons |->
                         <<Binding(FacadeDo(b), "momentary", FALSE)>>]]]

FacadeEvents ==
    {ButtonEvent(b, d, j) : b \in FacadeButtons, d \in BOOLEAN, j \in Joys}

InitFacade ==
    \E c \in {ChordController(FacadeMappings, <<>>)} :
        /\ c.exc = "none"
        /\ commands = c.S.commands
        /\ command_stacks = c.S.stacks
        /\ command_stack_limits = c.S.limits
        /\ target = c.S.target
        /\ handler = c.H
        /\ held = <<>>
        /\ last = Call("init", <<>>, "none", NoResponse, 0, <<>>)
        /\ run = <<>>

\* a call of ChordController.update under test
CallFacadeUpdate(events) ==
    \E r \in {controller_update(Facade, events)} :
        /\ \A g \in DOMAIN r.F.S.stacks : Len(r.F.S.stacks[g]) <= MaxFacadeStack
        /\ Install(r.F.S)
        /\ handler' = r.F.H
        /\ last' = Call("update", <<>>, r.exc, r.response, Len(events), events)
        /\ UNCHANGED <<run, held>>

\* update with one event
FacadeUpdateOne ==
    /\ handler.mappings = FacadeMappings
    /\ \E e \in FacadeEvents : CallFacadeUpdate(<<e>>)

\* update with several events
FacadeUpdateBatch ==
    /\ handler.mappings = FacadeMappings
    /\ \E n \in 2..MaxFacadeBatch :
           \E events \in [1..n -> FacadeEvents] : CallFacadeUpdate(events)

NextFacade == FacadeUpdateOne \/ FacadeUpdateBatch

SpecFacade == InitFacade /\ [][NextFacade]_vars

(***************************************************************************)
(* The same controller with a caller that also passes responses of its own *)
(* to ChordController.execute_actions: their actions are those of the      *)
(* mapping table and one that is in no mapping table, hence not registered *)
(* until it is done.                                                       *)
(***************************************************************************)
UnmappedDo == <<"set", "quality_modifier", DIMINISHED>>

ActionPool == {FacadeDo(b) : b \in FacadeButtons} \cup {UnmappedDo}

Responses ==
    {[to_undo |-> u, to_do |-> d] :
        u \in UNION {[1..n -> ActionPool] : n \in 0..MaxResponse},
        d \in UNION {[1..n -> ActionPool] : n \in 0..1}}

\* a call of ChordController.execute_actions
ExecuteActions ==
    /\ handler.mappings = FacadeMappings
    /\ \E response \in Responses :
       \E r \in {execute_actions(State, response)} :
        /\ \A g \in DOMAIN r.S.stacks : Len(r.S.stacks[g]) <= MaxFacadeStack
        /\ Install(r.S)
        /\ last' = Call("execute_actions", <<>>, r.exc, response, 0, <<>>)
        /\ UNCHANGED <<run, handler, held>>

NextActions == FacadeUpdateOne \/ ExecuteActions

SpecActions == InitFacade /\ [][NextActions]_vars

(***************************************************************************)
(* An InputHandler on its own, as in TestInputHandler: one event at a time *)
(* is passed to InputHandler.update, a button or a motion of hat 0 of      *)
(* either device, and between updates the mode is set as SetMode sets it.  *)
(* The bindings are those the tests switch between: toggles and latches    *)
(* with and without on_release on buttons and on hat directions, and       *)
(* momentary bindings on hat directions; every binding of a keymap has an  *)
(* action of its own.  run records, for every toggle binding of every      *)
(* mode, the list its action was put in last.                              *)
(***************************************************************************)
NumInputButtons == 3    \* buttons of the device

UP == Vector(0, 1)
DOWN == Vector(0, -1)
LEFT == Vector(-1, 0)
UPLEFT == Vector(-1, 1)
DOWNLEFT == Vector(-1, -1)

\* the positions the hat is moved to
Vectors == {NEUTRAL, UP, DOWN, LEFT, UPLEFT, DOWNLEFT}

InputButtons == 0..(NumInputButtons - 1)

Play(k) == <<"play_scale_position", k>>

\* button 0: a toggle; button 1: a toggle on release; every other button:
\* a latch and a latch on release
InputButtonBindings(b) ==
    CASE b = 0 -> <<Binding(Play(0), "toggle", FALSE)>>
      [] b = 1 -> <<Binding(Play(1), "toggle", TRUE)>>
      [] OTHER -> <<Binding(Play(10 + 2 * b), "latch", FALSE),
                    Binding(Play(11 + 2 * b), "latch", TRUE)>>

InputHats ==
    (hat_key(0, UP) :> <<Binding(Play(4), "momentary", FALSE),
                         Binding(Play(5), "latch", FALSE)>>)
    @@ (hat_key(0, DOWN) :> <<Binding(Play(6), "latch", TRUE)>>)
    @@ (hat_key(0, LEFT) :> <<Binding(Play(7), "toggle", FALSE)>>)
    @@ (hat_key(0, UPLEFT) :> <<Binding(Play(8), "momentary", FALSE),
                                Binding(Play(9), "toggle", TRUE)>>)

InputMappings ==
    ("default" :> [buttons |-> [b \in InputButtons |-> InputButtonBindings(b)],
                   hats |-> InputHats])
    @@ ("alt" :> [buttons |-> [b \in {0} |-> InputButtonBindings(b)]])

InputConfig(easy) ==
    [mappings |-> InputMappings,
     hat_calibration |-> [h \in {0} |-> [easy_diagonals |-> easy]],
     axis_calibration |-> <<>>]

\* every event of device 0, and of the other devices a press of button 0
\* and a motion of the hat
InputEvents ==
    {ButtonEvent(b, d, 0) : b \in InputButtons, d \in BOOLEAN}
    \cup {HatEvent(v, 0, 0) : v \in Vectors}
    \cup {ButtonEvent(0, TRUE, j) : j \in Joys}
    \cup {HatEvent(UP, 0, j) : j \in Joys}

\* the bindings of a keymap as tuples <<kind, key, i, data>>: data is the
\* i-th binding of button key or of hat key key
KeymapBindings(keymap) ==
    UNION {UNION {{<<x, k, i, keymap[x][k][i]>> :
                      i \in 1..Len(keymap[x][k])} :
                     k \in DOMAIN keymap[x]} :
              x \in {"hats", "buttons"} \cap DOMAIN keymap}

ToggleKeys ==
    UNION {{<<m, B[4].do>> : B \in {X \in KeymapBindings(InputMappings[m]) :
                                        X[4].behavior = "toggle"}} :
              m \in DOMAIN InputMappings}

InSeq(x, seq) == \E i \in 1..Len(seq) : seq[i] = x

InitInput ==
    \E easy \in BOOLEAN :
        /\ commands = <<>>
        /\ command_stacks = <<>>
        /\ command_stack_limits = <<>>
        /\ target = TargetInit
        /\ handler = InputHandler(InputConfig(easy))
        /\ held = <<>>
        /\ last = Call("init", <<>>, "none", NoResponse, 0, <<>>)
        /\ run = [k \in ToggleKeys |-> "none"]

\* a call of InputHandler.update with one event
InputUpdate ==
    /\ handler.mappings = InputMappings
    /\ \E e \in InputEvents :
       \E r \in {handler_update(handler, target.mode, <<e>>)} :
           /\ handler' = r.H
           /\ last' = Call("update", <<>>, r.exc,
                           [to_do |-> r.to_do, to_undo |-> r.to_undo], 1, <<e>>)
           /\ run' = [k \in ToggleKeys |->
                         IF k[1] = target.mode /\ InSeq(k[2], r.to_do) THEN "to_do"
                         ELSE IF k[1] = target.mode /\ InSeq(k[2], r.to_undo)
                         THEN "to_undo"
                         ELSE run[k]]
           /\ UNCHANGED <<commands, command_stacks, command_stack_limits,
                          target, held>>

\* the mode is set to another mode of the mapping table
SwitchMode ==
    /\ handler.mappings = InputMappings
    /\ \E m \in DOMAIN InputMappings \ {target.mode} :
           /\ target' = [target EXCEPT !.mode = m]
           /\ last' = Call("mode", <<"mode", IH, m>>, "none", NoResponse, 0, <<>>)
           /\ UNCHANGED <<commands, command_stacks, command_stack_limits,
                          handler, held, run>>

NextInput == InputUpdate \/ SwitchMode

SpecInput == InitInput /\ [][NextInput]_vars

(***************************************************************************)
(* A controller played with the hat, as in the "playing_notes" sequence of *)
(* input_sequence: the directions of hat 0 are bound to momentary          *)
(* play_scale_position actions and button 0 to a momentary "set" of        *)
(* quality_modifier.  One event at a time is passed to                     *)
(* ChordController.update, or several in one batch as the main loop does.  *)
(***************************************************************************)
MaxHatStack == 2     \* longest undo stack explored with the hat
MaxHatBatch == 2     \* most events passed to one update with the hat

HatPlays ==
    (hat_key(0, UP) :> <<Binding(Play(0), "momentary", FALSE)>>)
    @@ (hat_key(0, DOWN) :> <<Binding(Play(1), "momentary", FALSE)>>)
    @@ (hat_key(0, LEFT) :> <<Binding(Play(4), "momentary", FALSE)>>)
    @@ (hat_key(0, UPLEFT) :> <<Binding(Play(6), "momentary", FALSE)>>)
    @@ (hat_key(0, DOWNLEFT) :> <<Binding(Play(5), "momentary", FALSE)>>)

HatMappings ==
    [m \in {"default"} |->
        [buttons |-> [b \in {0} |->
                         <<Binding(<<"set", "quality_modifier", MINOR>>,
                                   "momentary", FALSE)>>],
         hats |-> HatPlays]]

\* every event of device 0, and of the other devices a press of the button
\* and a motion of the hat
HatEvents ==
    {HatEvent(v, 0, 0) : v \in Vectors}
    \cup {ButtonEvent(0, d, 0) : d \in BOOLEAN}
    \cup {ButtonEvent(0, TRUE, j) : j \in Joys}
    \cup {HatEvent(UP, 0, j) : j \in Joys}

\* ChordController.__init__ with an InputHandler whose configuration sets
\* easy_diagonals of hat 0
InitHat ==
    \E easy \in BOOLEAN :
    \E c \in {ChordController(HatMappings, <<>>)} :
        /\ c.exc = "none"
        /\ commands = c.S.commands
        /\ command_stacks = c.S.stacks
        /\ command_stack_limits = c.S.limits
        /\ target = c.S.target
        /\ handler = [c.H EXCEPT !.hat_calibration =
                          [h \in {0} |-> [easy_diagonals |-> easy]]]
        /\ held = <<>>
        /\ last = Call("init", <<>>, "none", NoResponse, 0, <<>>)
        /\ run = <<>>

\* a call of ChordController.update with the hat
CallHatUpdate(events) ==
    \E r \in {controller_update(Facade, events)} :
        /\ \A g \in DOMAIN r.F.S.stacks : Len(r.F.S.stacks[g]) <= MaxHatStack
        /\ Install(r.F.S)
        /\ handler' = r.F.H
        /\ last' = Call("update", <<>>, r.exc, r.response, Len(events), events)
        /\ UNCHANGED <<run, held>>

\* update with one event
HatUpdateOne ==
    /\ handler.mappings = HatMappings
    /\ \E e \in HatEvents : CallHatUpdate(<<e>>)

\* update with several motions of the hat of device 0
HatUpdateBatch ==
    /\ handler.mappings = HatMappings
    /\ \E n \in 2..MaxHatBatch :
           \E events \in [1..n -> {HatEvent(v, 0, 0) : v \in Vectors}] :
              CallHatUpdate(events)

NextHat == HatUpdateOne \/ HatUpdateBatch

SpecHat == InitHat /\ [][NextHat]_vars

(***************************************************************************)
(* The same controller with the device bound beforehand, as                *)
(* test_default_mode_update binds it, and given motions of the hat only.   *)
(***************************************************************************)
PlayEvents ==
    {HatEvent(v, 0, 0) : v \in Vectors} \cup {HatEvent(UP, 0, j) : j \in Joys}

\* chord_controller.input_handler.joystick_index = 0 after the construction
InitPlay ==
    \E easy \in BOOLEAN :
    \E c \in {ChordController(HatMappings, <<>>)} :
        /\ c.exc = "none"
        /\ commands = c.S.commands
        /\ command_stacks = c.S.stacks
        /\ command_stack_limits = c.S.limits
        /\ target = c.S.target
        /\ handler = [c.H EXCEPT !.joystick_index = 0,
                                 !.hat_calibration =
                                     [h \in {0} |-> [easy_diagonals |-> easy]]]
        /\ held = <<>>
        /\ last = Call("init", <<>>, "none", NoResponse, 0, <<>>)
        /\ run = <<>>

\* update with one motion of the hat
PlayUpdateOne ==
    /\ handler.mappings = HatMappings
    /\ \E e \in PlayEvents : CallHatUpdate(<<e>>)

\* update with several motions of the hat, as the main loop passes them
PlayUpdateBatch ==
    /\ handler.mappings = HatMappings
    /\ \E n \in 2..MaxHatBatch :
           \E events \in [1..n -> PlayEvents] : CallHatUpdate(events)

NextPlay == PlayUpdateOne \/ PlayUpdateBatch

SpecPlay == InitPlay /\ [][NextPlay]_vars

(***************************************************************************)
(* A controller with two modes, as in test_other_modes: button 0 of the    *)
(* "default" mode is bound to a momentary "mode" action, and the           *)
(* configuration decides whether the other mode binds the same button to   *)
(* the same action and whether the "startup" actions set the mode.  held   *)
(* is <<mode before the press, press put the mode action in to_do>> while  *)
(* button 0 is down.                                                       *)
(***************************************************************************)
NumModeButtons == 3  \* buttons of the device of the two-mode controller
MaxModeStack == 3    \* longest undo stack explored with two modes

ModeButtons == 0..(NumModeButtons - 1)

ModeSwitch == <<"mode", "alt">>

ModeMappings(mirrored) ==
    [m \in {"default", "alt"} |->
        [buttons |->
            [b \in (IF m = "alt" /\ ~mirrored THEN ModeButtons \ {0}
                    ELSE ModeButtons) |->
                CASE b = 0 -> <<Binding(ModeSwitch, "momentary", FALSE)>>
                  [] b = 1 -> <<Binding(<<"set", "quality_modifier", MINOR>>,
                                        "momentary", FALSE)>>
                  [] OTHER -> <<Binding(<<"inc", "octave", b - 1>>,
                                        "latch", FALSE)>>]]]

ModeStartups == {<<>>, << <<"mode", "default">> >>}

ModeEvents == {ButtonEvent(b, d, 0) : b \in ModeButtons, d \in BOOLEAN}

\* ChordController.__init__ with one of the configurations
InitMode ==
    \E mirrored \in BOOLEAN, startup \in ModeStartups :
    \E c \in {ChordController(ModeMappings(mirrored), startup)} :
        /\ c.exc = "none"
        /\ commands = c.S.commands
        /\ command_stacks = c.S.stacks
        /\ command_stack_limits = c.S.limits
        /\ target = c.S.target
        /\ handler = c.H
        /\ held = <<>>
        /\ last = Call("init", <<>>, "none", NoResponse, 0, <<>>)
        /\ run = <<>>

\* ChordController.update with one event of the device, a button being
\* pressed when it is up and released when it is down
ModeUpdate ==
    /\ handler.mappings \in {ModeMappings(mirrored) : mirrored \in BOOLEAN}
    /\ \E e \in ModeEvents :
       \E r \in {controller_update(Facade, <<e>>)} :
        /\ e.button = 0 => (e.type = JOYBUTTONDOWN <=> held = <<>>)
        /\ \A g \in DOMAIN r.F.S.stacks : Len(r.F.S.stacks[g]) <= MaxModeStack
        /\ Install(r.F.S)
        /\ handler' = r.F.H
        /\ held' = IF e.button # 0 THEN held
                   ELSE IF e.type = JOYBUTTONUP THEN <<>>
                   ELSE <<target.mode, InSeq(ModeSwitch, r.response.to_do)>>
        /\ last' = Call("update", <<>>, r.exc, r.response, 1, <<e>>)
        /\ UNCHANGED run

NextMode == ModeUpdate

SpecMode == InitMode /\ [][NextMode]_vars

(***************************************************************************)
(* The controller with two modes under test: the events of one or several  *)
(* passes of the main loop are made up and passed to                       *)
(* ChordController.update in one batch.                                    *)
(***************************************************************************)
MaxModeBatch == 2    \* most events passed to one update with two modes

CallModeBatch(events) ==
    \E r \in {controller_update(Facade, events)} :
        /\ \A g \in DOMAIN r.F.S.stacks : Len(r.F.S.stacks[g]) <= MaxModeStack
        /\ Install(r.F.S)
        /\ handler' = r.F.H
        /\ last' = Call("update", <<>>, r.exc, r.response, Len(events), events)
        /\ UNCHANGED <<run, held>>

\* update with one event
ModeBatchOne ==
    /\ handler.mappings \in {ModeMappings(mirrored) : mirrored \in BOOLEAN}
    /\ \E e \in ModeEvents : CallModeBatch(<<e>>)

\* update with several events
ModeBatchMany ==
    /\ handler.mappings \in {ModeMappings(mirrored) : mirrored \in BOOLEAN}
    /\ \E n \in 2..MaxModeBatch :
           \E events \in [1..n -> ModeEvents] : CallModeBatch(events)

NextModeBatch == ModeBatchOne \/ ModeBatchMany

SpecModeBatch == InitMode /\ [][NextModeBatch]_vars

(***************************************************************************)
(* An Invoker given commands of every class of _default_cmd_classes, as    *)
(* execute_actions gives them: each is done with registration on first     *)
(* sight.  last.n counts the calls.                                        *)
(***************************************************************************)
NumGroupValues == 2  \* values, deltas and positions of the commands
MaxGroupDone == 2    \* most calls of do explored

GroupValues == 1..NumGroupValues

GroupCmds ==
    UNION {{<<"set", INST, "octave", v>>, <<"set_next", INST, "octave", v>>,
            <<"inc", INST, "octave", v>>, <<"dec", INST, "octave", v>>,
            <<"inc", INST, "octave", 0 - v>>,
            <<"play_scale_position", INST, v - 1>>,
            <<"send_cc", INST, 1, v>>} : v \in GroupValues}
    \cup {<<"set", INST, "velocity", 1>>, <<"set_next", INST, "tonic", 1>>,
          <<"inc", INST, "velocity", 1>>,
          <<"commit", INST, "octave">>, <<"commit", INST, "tonic">>,
          <<"mode", IH, "alt">>, <<"mode", IH, "default">>}

InitGroup ==
    /\ commands = <<>>
    /\ command_stacks = <<>>
    /\ command_stack_limits = <<>>
    /\ target = TargetInit
    /\ handler = <<>>
    /\ held = <<>>
    /\ last = Call("init", <<>>, "none", NoCommand, 0, <<>>)
    /\ run = <<>>

\* self.invoker.do(action, self.allow_unknown_commands, 20)
GroupDo ==
    /\ last.n < MaxGroupDone
    /\ \E cmd \in GroupCmds :
       \E r \in {do(State, cmd, TRUE, STACK_LIMIT)} :
           /\ Install(r.S)
           /\ last' = Call("do", cmd, r.exc, NoCommand, last.n + 1, <<>>)
           /\ UNCHANGED <<handler, held, run>>

NextGroup == GroupDo

SpecGroup == InitGroup /\ [][NextGroup]_vars

(***************************************************************************)
(* An Invoker given "set_next" and "commit" commands, done with            *)
(* registration on first sight and undone.                                 *)
(***************************************************************************)
NumStageValues == 2  \* staged values run from 0 to NumStageValues
MaxStageStack == 2   \* longest undo stack explored with staged values

StageCmds ==
    {<<"set_next", INST, "octave", v>> : v \in 0..NumStageValues}
    \cup {<<"commit", INST, "octave">>, <<"commit", INST, "tonic">>}

InitStage ==
    /\ commands = <<>>
    /\ command_stacks = <<>>
    /\ command_stack_limits = <<>>
    /\ target = TargetInit
    /\ handler = <<>>
    /\ held = <<>>
    /\ last = Call("init", <<>>, "none", NoCommand, 0, <<>>)
    /\ run = <<>>

\* invoker.do(cmd, True, 20)
StageDo ==
    /\ last.op \in {"init", "do", "undo"}
    /\ \E cmd \in StageCmds :
       \E r \in {do(State, cmd, TRUE, STACK_LIMIT)} :
           /\ \A g \in DOMAIN r.S.stacks : Len(r.S.stacks[g]) <= MaxStageStack
           /\ Install(r.S)
           /\ last' = Call("do", cmd, r.exc, NoCommand, 0, <<>>)
           /\ UNCHANGED <<handler, held, run>>

\* invoker.undo(cmd) of a registered command
StageUndo ==
    /\ last.op \in {"init", "do", "undo"}
    /\ \E cmd \in StageCmds \cap DOMAIN commands :
       \E r \in {undo(State, cmd)} :
           /\ Install(r.S)
           /\ last' = Call("undo", cmd, r.exc, NoCommand, 0, <<>>)
           /\ UNCHANGED <<handler, held, run>>

NextStage == StageDo \/ StageUndo

SpecStage == InitStage /\ [][NextStage]_vars

(***************************************************************************)
(* value_in_range on its own, as in test_value_in_range: run holds the     *)
(* arguments of one call, and the call leaves in last what it raised or    *)
(* returned.                                                               *)
(***************************************************************************)
MaxGrid == 21        \* percents run from -1/PercentGrid to MaxGrid/PercentGrid
MaxCurve == 2        \* curves run from -1 to MaxCurve
PercentGrid == 20     \* percents are multiples of 1/PercentGrid

Percents == {Rat(k, PercentGrid) : k \in -1..MaxGrid}

Curves == -1..MaxCurve

\* <<value_at_min, value_at_max>>
Ranges == {<<0, 10>>, <<0, 127>>, <<127, 0>>, <<-1, 1>>, <<0, 8>>}

Fifths == <<Rat(1, 5), Rat(2, 5), Rat(3, 5), Rat(4, 5), Rat(1, 1)>>

StepTables ==
    {<<>>,
     Fifths,
     <<Rat(1, 4), Rat(1, 2), Rat(3, 4), Rat(1, 1)>>,
     <<Rat(1, 5), Rat(2, 5), Rat(3, 5), Rat(4, 5)>>,
     <<Rat(0, 1), Rat(1, 5), Rat(2, 5), Rat(3, 5), Rat(4, 5)>>,
     <<Rat(3, 5), Rat(1, 5), Rat(2, 5)>>}

RangeArgs ==
    [percent : Percents, value_at_min : {Rat(r[1], 1) : r \in Ranges},
     value_at_max : {Rat(r[2], 1) : r \in Ranges}, curve : Curves,
     inclusive : BOOLEAN, steps : StepTables]

InitRange ==
    /\ commands = <<>>
    /\ command_stacks = <<>>
    /\ command_stack_limits = <<>>
    /\ target = TargetInit
    /\ handler = <<>>
    /\ held = <<>>
    /\ last = Call("init", <<>>, "none", Rat(0, 1), 0, <<>>)
    /\ run \in {a \in RangeArgs :
                  <<a.value_at_min[1], a.value_at_max[1]>> \in Ranges}

\* value_in_range(**run)
ValueInRange ==
    /\ last.op = "init"
    /\ \E r \in {value_in_range(run.percent, run.value_at_min, run.value_at_max,
                                 run.curve, run.inclusive, run.steps)} :
           last' = Call("value_in_range", <<>>, r.exc, r.value, 0, <<>>)
    /\ UNCHANGED <<commands, command_stacks, command_stack_limits, target,
                   handler, held, run>>

NextRange == ValueInRange

SpecRange == InitRange /\ [][NextRange]_vars

(***************************************************************************)
(* An InputHandler with axes, as in test_axis_motion: axis 4 sets the      *)
(* velocity through a curve and axis 5 the voicing through a step table;   *)
(* axis 3 has a calibration and no binding.  The calibration of axis 5 is  *)
(* narrower than the readings of the device.  The code has no statement    *)
(* that adds an axis to _uncalibrated_axes: AxisUncalibrate is a caller    *)
(* doing so.                                                               *)
(***************************************************************************)
MaxRaw == 4          \* readings run from -MaxRaw/RawGrid to MaxRaw/RawGrid
RawGrid == 4         \* readings are multiples of 1/RawGrid

Axes == {3, 4, 5}

RawValues ==
    {Rat(k, RawGrid) : k \in (0 - MaxRaw)..MaxRaw}
    \cup {Rat(1, 3), Rat(5004, 10000)}

AxisCalibration ==
    (3 :> [min |-> Rat(0, 1), max |-> Rat(1, 1)])
    @@ (4 :> [min |-> Rat(-1, 1), max |-> Rat(1, 1)])
    @@ (5 :> [min |-> Rat(-1, 2), max |-> Rat(1, 2)])

AxisMappings ==
    [m \in {"default"} |->
        [buttons |-> [b \in {0} |-> <<Binding(Play(0), "toggle", FALSE)>>],
         axes |->
            (4 :> <<AxisBinding(<<"set", "velocity">>, Rat(112, 1), Rat(0, 1),
                                2, TRUE, <<>>)>>)
            @@ (5 :> <<AxisBinding(<<"set", "voicing">>, Rat(0, 1), Rat(5, 1),
                                   1, FALSE, Fifths)>>)]]

AxisConfig ==
    [mappings |-> AxisMappings, hat_calibration |-> <<>>,
     axis_calibration |-> AxisCalibration]

\* every axis event and the events of button 0 of device 0, and of the
\* other devices a press of button 0 and a motion of axis 4
AxisEvents ==
    {AxisEvent(v, a, 0) : v \in RawValues, a \in Axes}
    \cup {ButtonEvent(0, d, 0) : d \in BOOLEAN}
    \cup {ButtonEvent(0, TRUE, j) : j \in Joys}
    \cup {AxisEvent(Rat(1, 1), 4, j) : j \in Joys}

InitAxis ==
    /\ commands = <<>>
    /\ command_stacks = <<>>
    /\ command_stack_limits = <<>>
    /\ target = TargetInit
    /\ handler = InputHandler(AxisConfig)
    /\ held = <<>>
    /\ last = Call("init", <<>>, "none", NoResponse, 0, <<>>)
    /\ run = <<>>

\* a call of InputHandler.update with one event; an exception leaves no
\* response
AxisUpdate ==
    /\ handler.mappings = AxisMappings
    /\ \E e \in AxisEvents :
       \E r \in {handler_update(handler, target.mode, <<e>>)} :
           /\ handler' = r.H
           /\ last' = Call("update", <<>>, r.exc,
                           IF r.exc = "none"
                           THEN [to_do |-> r.to_do, to_undo |-> r.to_undo]
                           ELSE NoResponse,
                           1, <<e>>)
           /\ UNCHANGED <<commands, command_stacks, command_stack_limits,
                          target, held, run>>

\* a caller flags an axis as uncalibrated
AxisUncalibrate ==
    /\ handler.mappings = AxisMappings
    /\ \E a \in Axes \ handler.uncalibrated_axes :
           /\ handler' = [handler EXCEPT !.uncalibrated_axes = @ \cup {a}]
           /\ last' = Call("uncalibrate", <<>>, "none", NoResponse, a, <<>>)
           /\ UNCHANGED <<commands, command_stacks, command_stack_limits,
                          target, held, run>>

NextAxis == AxisUpdate \/ AxisUncalibrate

SpecAxis == InitAxis /\ [][NextAxis]_vars

(***************************************************************************)
(* A controller used for long: button 0 latches a "set" of                 *)
(* quality_modifier, button 1 latches an "inc" of the octave and axis 5    *)
(* sets the voicing through the step table of test_axis_motion.  The       *)
(* reading of the axis is the one of that test, -0.1, which the table maps *)
(* to the voicing 2: the constructor has registered the voicings 0 and 5.  *)
(***************************************************************************)
DeepMappings ==
    [m \in {"default"} |->
        [buttons |->
            (0 :> <<Binding(<<"set", "quality_modifier", MINOR>>, "latch", FALSE)>>)
            @@ (1 :> <<Binding(<<"inc", "octave", 1>>, "latch", FALSE)>>),
         axes |->
            (5 :> <<AxisBinding(<<"set", "voicing">>, Rat(0, 1), Rat(5, 1),
                                1, FALSE, Fifths)>>)]]

DeepButtonEvents == {ButtonEvent(b, d, 0) : b \in {0, 1}, d \in BOOLEAN}

DeepAxisEvents == {AxisEvent(Rat(-1, 10), 5, 0)}

InitDeep ==
    \E c \in {ChordController(DeepMappings, <<>>)} :
        /\ c.exc = "none"
        /\ commands = c.S.commands
        /\ command_stacks = c.S.stacks
        /\ command_stack_limits = c.S.limits
        /\ target = c.S.target
        /\ handler = [c.H EXCEPT !.axis_calibration = AxisCalibration]
        /\ held = <<>>
        /\ last = Call("init", <<>>, "none", NoResponse, 0, <<>>)
        /\ run = <<>>

\* ChordController.update with the events of one pass of the main loop
CallDeepUpdate(events) ==
    \E r \in {controller_update(Facade, events)} :
        /\ Install(r.F.S)
        /\ handler' = r.F.H
        /\ last' = Call("update", <<>>, r.exc, r.response, Len(events), events)
        /\ UNCHANGED <<run, held>>

\* a button goes down or up
DeepButton ==
    /\ handler.mappings = DeepMappings
    /\ \E e \in DeepButtonEvents : CallDeepUpdate(<<e>>)

\* the axis moves
DeepAxis ==
    /\ handler.mappings = DeepMappings
    /\ \E e \in DeepAxisEvents : CallDeepUpdate(<<e>>)

NextDeep == DeepButton \/ DeepAxis

SpecDeep == InitDeep /\ [][NextDeep]_vars


(***************************************************************************)
(* Properties of the Invoker.  In an action formula a step that changes    *)
(* vars and ends with last'.op = "do" is a call of do with last'.cmd, and  *)
(* likewise for add_command and undo.                                      *)
(***************************************************************************)
\* C1: add_command is idempotent: a call with an action tuple that is already
\* registered returns the Command object the first call created and adds no
\* registry entry and no stack.
C1_AddCommandIdempotent ==
    [][(last'.op = "add_command" /\ Registered(commands, last'.cmd)) =>
          /\ last'.exc = "none"
          /\ last'.ret = Command(last'.cmd, commands[last'.cmd])
          /\ commands' = commands
          /\ command_stacks' = command_stacks]_vars

\* a second add_command of a command that is already in an undo stack
C1_Witness ==
    /\ last.op = "add_command"
    /\ last.exc = "none"
    /\ \E j \in 1..Len(StackOf(command_stacks, GroupBy(last.cmd))) :
          command_stacks[GroupBy(last.cmd)][j] = last.ret

C5_UndoBelowTop ==
    [][(/\ last'.op = "undo"
        /\ Registered(commands, last'.cmd)
        /\ ~HasRevert(last'.cmd)) =>
          LET g == GroupBy(last'.cmd)
              c == Command(last'.cmd, commands[last'.cmd])
              stack == StackOf(command_stacks, g)
          IN  \A i \in 2..Len(stack) :
                 (stack[i] = c /\ \A k \in 1..(i - 1) : stack[k] # c) =>
                    /\ last'.exc = "none"
                    /\ last'.ret = c
                    /\ Len(command_stacks'[g]) = Len(stack) - 1
                    /\ \A j \in 1..(Len(stack) - 1) :
                          command_stacks'[g][j] = stack[IF j < i THEN j ELSE j + 1]
                    /\ \A h \in DOMAIN command_stacks \ {g} :
                          command_stacks'[h] = command_stacks[h]
                    /\ target' = target]_vars

\* an undo that worked below the top on a command without revert effect
C5_Witness ==
    /\ last.op = "undo" /\ last.exc = "none"
    /\ ~HasRevert(last.cmd)
    /\ last.n > 1

\* C6 as stated: for every kind of action, undo of an entry that is not at the
\* top removes it and leaves the target as it was.
C6_UndoBelowTopAnyKind ==
    [][(last'.op = "undo" /\ last'.exc = "none" /\ last'.n > 1) =>
          /\ Len(command_stacks'[GroupBy(last'.cmd)])
                = Len(command_stacks[GroupBy(last'.cmd)]) - 1
          /\ target' = target]_vars

\* C6 amended: undo of an entry that is not at the top removes it; the target
\* is left as it was when the command has no revert effect, and otherwise the
\* revert effect is applied (play_scale_position: the playing notes are
\* released, inc/dec: the delta is taken back).
C6_UndoBelowTopByKind ==
    [][(last'.op = "undo" /\ last'.exc = "none" /\ last'.n > 1) =>
          /\ Len(command_stacks'[GroupBy(last'.cmd)])
                = Len(command_stacks[GroupBy(last'.cmd)]) - 1
          /\ target'.attr =
                IF Name(last'.cmd) \in {"inc", "dec"}
                THEN SetAttr(target, Key(last'.cmd),
                             GetAttr(target, Key(last'.cmd)) - Value(last'.cmd)).attr
                ELSE target.attr
          /\ target'.playing =
                IF Name(last'.cmd) = "play_scale_position" THEN {}
                ELSE target.playing]_vars

\* an undo that worked below the top on a command with a revert effect
C6_Witness ==
    /\ last.op = "undo" /\ last.exc = "none"
    /\ HasRevert(last.cmd)
    /\ last.n > 1
    /\ target.playing = {}

\* C7 as stated: with any positive limit N, 1 included, and any kind of action,
\* no do fails because of the limit and a do on a stack holding N or more
\* entries leaves exactly N.
C7_LimitAnyN ==
    [][(/\ last'.op = "do"
        /\ Registered(commands', last'.cmd)
        /\ LimitOf(command_stack_limits', GroupBy(last'.cmd)) > 0) =>
          LET g == GroupBy(last'.cmd)
              N == command_stack_limits'[g]
              k == Len(StackOf(command_stacks, g))
          IN  /\ last'.exc = "none"
              /\ Len(command_stacks'[g]) = IF k >= N THEN N ELSE k + 1]_vars

\* C7 amended: the same for every limit N >= 2, and for N = 1 when the action
\* has a revert effect; so N+1 calls of do from the empty stack leave exactly
\* N entries and none of them fails.
C7_LimitFromTwo ==
    [][(/\ last'.op = "do"
        /\ Registered(commands', last'.cmd)
        /\ LimitOf(command_stack_limits', GroupBy(last'.cmd)) > 0
        /\ \/ command_stack_limits'[GroupBy(last'.cmd)] >= 2
           \/ HasRevert(last'.cmd)) =>
          LET g == GroupBy(last'.cmd)
              N == command_stack_limits'[g]
              k == Len(StackOf(command_stacks, g))
          IN  /\ last'.exc = "none"
              /\ Len(command_stacks'[g]) = IF k >= N THEN N ELSE k + 1]_vars

\* a do that evicted and left the stack at its limit
C7_Witness ==
    /\ last.op = "do" /\ last.exc = "none" /\ last.n >= 1
    /\ LimitOf(command_stack_limits, GroupBy(last.cmd)) >= 2
    /\ Len(command_stacks[GroupBy(last.cmd)])
          = command_stack_limits[GroupBy(last.cmd)]

\* C8 as stated: a do on a stack at its limit N evicts the oldest (bottom)
\* entries; the more recent ones stay.
C8_EvictsOldest ==
    [][(/\ last'.op = "do" /\ last'.exc = "none"
        /\ LimitOf(command_stack_limits', GroupBy(last'.cmd)) > 0
        /\ Len(StackOf(command_stacks, GroupBy(last'.cmd)))
              >= command_stack_limits'[GroupBy(last'.cmd)]) =>
          LET g == GroupBy(last'.cmd)
              N == command_stack_limits'[g]
          IN  command_stacks'[g] =
                 <<Command(last'.cmd, commands'[last'.cmd])>>
                    \o SubSeq(command_stacks[g], 1, N - 1)]_vars

\* C8 amended: a do on a stack at its limit N evicts the newest entries (from
\* the top, index 0); the N-1 oldest entries stay.
C8_EvictsNewest ==
    [][(/\ last'.op = "do" /\ last'.exc = "none"
        /\ LimitOf(command_stack_limits', GroupBy(last'.cmd)) > 0
        /\ Len(StackOf(command_stacks, GroupBy(last'.cmd)))
              >= command_stack_limits'[GroupBy(last'.cmd)]) =>
          LET g == GroupBy(last'.cmd)
              N == command_stack_limits'[g]
              k == Len(command_stacks[g])
          IN  command_stacks'[g] =
                 <<Command(last'.cmd, commands'[last'.cmd])>>
                    \o SubSeq(command_stacks[g], k - N + 2, k)]_vars

\* a do that evicted from a stack whose entries differ
C8_Witness ==
    /\ last.op = "do" /\ last.exc = "none" /\ last.n >= 1
    /\ Len(command_stacks[GroupBy(last.cmd)]) >= 2
    /\ command_stacks[GroupBy(last.cmd)][1] # command_stacks[GroupBy(last.cmd)][2]

\* the Command objects of run[a..b], newest first
RECURSIVE Newest(_, _)
Newest(a, b) ==
    IF b < a THEN <<>>
    ELSE <<Command(run[b], commands[run[b]])>> \o Newest(a, b - 1)

\* C9 as stated: with limit N, after N+1 do calls with distinct values the
\* first executed entry is at the bottom of the stack and the entry that was
\* on top before the last do is gone, and undoing the last executed command
\* sets the attribute to the value of the first executed command.
C9_UndoRestoresFirst ==
    (RunLimit > 0 /\ Len(run) = RunLimit + 1) =>
        /\ last.op = "do" =>
              command_stacks[RunGroup]
                 = Newest(RunLimit + 1, RunLimit + 1) \o Newest(1, RunLimit - 1)
        /\ last.op = "undo" =>
              /\ last.exc = "none"
              /\ GetAttr(target, "quality_modifier") = Value(run[1])

\* C9 amended: the stack is as stated, and undoing the last executed command
\* sets the attribute to the value of the command executed as number N-1
\* (the entry below the top), which is the first executed one only for N = 2.
C9_UndoRestoresBelowTop ==
    (RunLimit > 0 /\ Len(run) = RunLimit + 1) =>
        /\ last.op = "do" =>
              command_stacks[RunGroup]
                 = Newest(RunLimit + 1, RunLimit + 1) \o Newest(1, RunLimit - 1)
        /\ last.op = "undo" =>
              /\ last.exc = "none"
              /\ GetAttr(target, "quality_modifier") = Value(run[RunLimit - 1])
              /\ command_stacks[RunGroup] = Newest(1, RunLimit - 1)

\* a run with limit 3 or more that has undone its last command
C9_Witness ==
    /\ RunLimit >= 3 /\ Len(run) = RunLimit + 1
    /\ last.op = "undo" /\ last.exc = "none"


\* C10: a Command object is in its undo stack at most once.
C10_NoDuplicates ==
    \A g \in DOMAIN command_stacks :
        \A i, j \in 1..Len(command_stacks[g]) :
            command_stacks[g][i] = command_stacks[g][j] => i = j

\* C11: undo of a registered command whose group stack is empty or does not
\* hold that Command fails with UndoError and leaves the target and every
\* undo stack as they were.
C11_UndoMissing ==
    [][(/\ last'.op = "undo"
        /\ Registered(commands, last'.cmd)
        /\ IndexOf(StackOf(command_stacks, GroupBy(last'.cmd)),
                   Command(last'.cmd, commands[last'.cmd])) = 0) =>
          /\ last'.exc = "UndoError"
          /\ target' = target
          /\ command_stacks' = command_stacks]_vars

\* an undo failed on a stack that holds other commands and not this one,
\* after the target was changed
C11_Witness ==
    /\ last.op = "undo" /\ last.exc = "UndoError"
    /\ Registered(commands, last.cmd)
    /\ StackOf(command_stacks, GroupBy(last.cmd)) # <<>>
    /\ IndexOf(command_stacks[GroupBy(last.cmd)],
               Command(last.cmd, commands[last.cmd])) = 0
    /\ target # TargetInit

\* C12: undo of a command without a revert effect that is the only entry of
\* its stack fails with UndoError; the stack still holds the entry and the
\* target is as it was.
C12_UndoOnlyEntry ==
    [][(/\ last'.op = "undo"
        /\ Registered(commands, last'.cmd)
        /\ ~HasRevert(last'.cmd)
        /\ StackOf(command_stacks, GroupBy(last'.cmd))
              = <<Command(last'.cmd, commands[last'.cmd])>>) =>
          /\ last'.exc = "UndoError"
          /\ command_stacks' = command_stacks
          /\ target' = target]_vars

\* an undo failed on the only entry of its stack
C12_Witness ==
    /\ last.op = "undo" /\ last.exc = "UndoError"
    /\ Registered(commands, last.cmd)
    /\ ~HasRevert(last.cmd)
    /\ StackOf(command_stacks, GroupBy(last.cmd))
          = <<Command(last.cmd, commands[last.cmd])>>

\* C13: undo of a command without a revert effect at the top of a stack of
\* two or more entries executes the entry at index 1 again, pushes nothing,
\* removes the top entry only and returns the undone command; the attribute
\* then has the value the new top entry sets.
C13_UndoTopReplays ==
    [][(/\ last'.op = "undo"
        /\ Registered(commands, last'.cmd)
        /\ ~HasRevert(last'.cmd)
        /\ Len(StackOf(command_stacks, GroupBy(last'.cmd))) >= 2
        /\ command_stacks[GroupBy(last'.cmd)][1]
              = Command(last'.cmd, commands[last'.cmd])) =>
          LET g == GroupBy(last'.cmd)
              below == command_stacks[g][2].cmd
          IN  /\ last'.exc = "none"
              /\ last'.ret = Command(last'.cmd, commands[last'.cmd])
              /\ command_stacks' = [command_stacks EXCEPT ![g] = Tail(@)]
              /\ target' = Execute(below, target)
              /\ GetAttr(target', Key(below))
                    = GetAttr(SetAttr(target, Key(below), Value(below)), Key(below))]_vars

\* an undo at the top replayed an entry that sets another value
C13_Witness ==
    /\ last.op = "undo" /\ last.exc = "none" /\ last.n = 1
    /\ ~HasRevert(last.cmd)
    /\ command_stacks[GroupBy(last.cmd)] # <<>>
    /\ Value(command_stacks[GroupBy(last.cmd)][1].cmd) # Value(last.cmd)
    /\ GetAttr(target, Key(last.cmd)) = Value(command_stacks[GroupBy(last.cmd)][1].cmd)

\* C14 as stated: do of an action that is not registered fails with KeyError
\* and changes neither registry, stacks nor target when auto-registration is
\* off; when it is on, the call registers the command with the limit
\* supplied, executes it and pushes it.
C14_DoUnknown ==
    [][(last'.op = "do" /\ last'.arg # <<>>) =>
          LET cmd == last'.cmd
              g == GroupBy(cmd)
          IN  IF ~last'.arg[1]
              THEN /\ last'.exc = "KeyError"
                   /\ commands' = commands
                   /\ command_stacks' = command_stacks
                   /\ command_stack_limits' = command_stack_limits
                   /\ target' = target
              ELSE /\ last'.exc = "none"
                   /\ Registered(commands', cmd)
                   /\ command_stack_limits'[g] = last'.arg[2]
                   /\ command_stacks'[g][1] = Command(cmd, commands'[cmd])
                   /\ last'.n = 0 => target' = Execute(cmd, target)]_vars

\* C14 amended: with auto-registration on, the call registers the command
\* with the limit supplied, which becomes the limit of the group; it then
\* executes and pushes the command unless that limit is 1 and the stack of
\* the group holds an entry of a kind without revert effect: then the
\* eviction fails, do raises UndoError, the command stays registered and no
\* undo stack changes.
C14_DoUnknownUnlessEvictionFails ==
    [][(last'.op = "do" /\ last'.arg # <<>>) =>
          LET cmd == last'.cmd
              g == GroupBy(cmd)
          IN  IF ~last'.arg[1]
              THEN /\ last'.exc = "KeyError"
                   /\ commands' = commands
                   /\ command_stacks' = command_stacks
                   /\ command_stack_limits' = command_stack_limits
                   /\ target' = target
              ELSE /\ Registered(commands', cmd)
                   /\ command_stack_limits'[g] = last'.arg[2]
                   /\ IF /\ last'.arg[2] = 1
                         /\ StackOf(command_stacks, g) # <<>>
                         /\ ~HasRevert(cmd)
                      THEN /\ last'.exc = "UndoError"
                           /\ command_stacks' = command_stacks
                      ELSE /\ last'.exc = "none"
                           /\ command_stacks'[g][1] = Command(cmd, commands'[cmd])
                           /\ last'.n = 0 => target' = Execute(cmd, target)]_vars

\* a do registered its command by itself, with a limit, and pushed it on a
\* stack that held an entry
C14_Witness ==
    /\ last.op = "do" /\ last.exc = "none"
    /\ last.arg # <<>> /\ last.arg[1] /\ last.arg[2] > 0
    /\ Len(command_stacks[GroupBy(last.cmd)]) >= 2
    /\ command_stacks[GroupBy(last.cmd)][1] = Command(last.cmd, commands[last.cmd])
(***************************************************************************)
(* Properties of the facade.  A step that changes vars, ends with          *)
(* last'.n = 1 and has held' = Append(held, b) is an update with the one   *)
(* event "button b down" of the tracked device.                            *)
(***************************************************************************)
QualityGroup == <<"set", INST, "quality_modifier">>

\* C2 as stated: for a button b bound to a momentary "set" whose group was
\* seeded, button-down yields to_do = [the action] and no to_undo, the
\* button-up that follows yields to_undo = [the action] and no to_do, and
\* after the facade has executed the release the attribute has the value it
\* had before the press.
C2_PressReleaseAlways ==
    [][\A b \in DOMAIN handler.mappings["default"].buttons :
          (last'.op = "update" /\ last'.n = 1 /\ held' = Append(held, b)) =>
             /\ last'.ret = [to_do |-> <<ButtonDo(b)>>, to_undo |-> <<>>]
             /\ LET up == ButtonEvent(b, FALSE, handler'.joystick_index)
                    r == controller_update(Facade', <<up>>)
                IN  /\ r.response = [to_do |-> <<>>, to_undo |-> <<ButtonDo(b)>>]
                    /\ r.exc = "none"
                    /\ GetAttr(r.F.S.target, "quality_modifier")
                          = GetAttr(target, "quality_modifier")]_vars

\* C2 amended: the same, for a press that finds the undo stack of the group
\* below the facade's depth limit of 20 entries.
C2_PressReleaseBelowLimit ==
    [][\A b \in DOMAIN handler.mappings["default"].buttons :
          (/\ last'.op = "update" /\ last'.n = 1 /\ held' = Append(held, b)
           /\ Len(command_stacks[QualityGroup]) < STACK_LIMIT) =>
             /\ last'.ret = [to_do |-> <<ButtonDo(b)>>, to_undo |-> <<>>]
             /\ LET up == ButtonEvent(b, FALSE, handler'.joystick_index)
                    r == controller_update(Facade', <<up>>)
                IN  /\ r.response = [to_do |-> <<>>, to_undo |-> <<ButtonDo(b)>>]
                    /\ r.exc = "none"
                    /\ GetAttr(r.F.S.target, "quality_modifier")
                          = GetAttr(target, "quality_modifier")]_vars

\* a release was executed and unwound the stack to the seeded baseline
C2_Witness ==
    /\ last.op = "update" /\ last.n = 1 /\ last.exc = "none"
    /\ \E b \in Buttons : last.ret = [to_do |-> <<>>, to_undo |-> <<ButtonDo(b)>>]
    /\ held = <<>>
    /\ Len(command_stacks[QualityGroup]) = 1
    /\ GetAttr(target, "quality_modifier") = GetAttr(InstrumentInit, "quality_modifier")

\* C3: after every update the attribute has the value of the button pressed
\* last among those still held, the seeded baseline value when none is held,
\* and that is the value of the command at the top of the group's undo stack.
C3_LastHeldWins ==
    /\ GetAttr(target, "quality_modifier") =
          IF held = <<>> THEN GetAttr(InstrumentInit, "quality_modifier")
          ELSE ButtonDo(held[Len(held)])[3]
    /\ GetAttr(target, "quality_modifier")
          = Value(command_stacks[QualityGroup][1].cmd)

\* what the facade is said to do with to_undo: every action from i on is
\* undone in turn, and a failing undo is passed over whatever its error
RECURSIVE UndoEach(_, _, _)
UndoEach(S, to_undo, i) ==
    IF i > Len(to_undo) THEN S
    ELSE LET next(r) == UndoEach(r.S, to_undo, i + 1)
         IN  next(undo(S, WithObj(to_undo[i])))

\* C15: the facade never fails because of an undo: whatever fails among the
\* undos of to_undo (empty stack, command not in the stack, only entry
\* without revert, action never registered), every other action of to_undo
\* and then every action of to_do is executed, and the call ends as the dos
\* end.
C15_UndoNeverFails ==
    [][last'.op \in {"execute_actions", "update"} =>
          LET d == DoAll(UndoEach(State, last'.ret.to_undo, 1),
                         last'.ret.to_do, 1, TRUE)
          IN  /\ last'.exc = d.exc
              /\ State' = d.S]_vars

\* C16: when the release of a button bound to a momentary "set" has undone
\* its press (the update took the command off the undo stack of the group),
\* a second release of that button makes ChordController.update raise
\* UndoError.
C16_SecondReleaseRaises ==
    [][\A b \in FacadeButtons :
          (/\ last'.op = "update" /\ last'.n = 1 /\ last'.exc = "none"
           /\ last'.arg = <<ButtonEvent(b, FALSE, handler.joystick_index)>>
           /\ Name(FacadeDo(b)) = "set"
           /\ Len(command_stacks'[QualityGroup]) < Len(command_stacks[QualityGroup]))
          =>
             controller_update(Facade', <<ButtonEvent(b, FALSE, handler'.joystick_index)>>).exc
                = "UndoError"]_vars

\* the groups of the "set" commands found in the mapping table
SeededGroups ==
    {GroupBy(WithObj(d)) :
        d \in {x \in UNION {commands_from_input_mapping(handler.mappings[m]) :
                                m \in DOMAIN handler.mappings} : x[1] = "set"}}

\* the action of the baseline command of group g: the attribute's value at
\* construction
Baseline(g) == g \o <<GetAttr(TargetInit, g[3])>>

\* the undo of cmd in S fails because cmd has no revert and is the only
\* entry of its stack
UnrevertibleBottom(S, cmd) ==
    /\ Registered(S.commands, cmd)
    /\ ~HasRevert(cmd)
    /\ LET stack == StackOf(S.stacks, GroupBy(cmd))
       IN  Len(stack) = 1 /\ stack[1].cmd = cmd

\* C17: in every state reached by updates the undo stack of every "set"
\* group of the mapping table has the seeded baseline command as its bottom
\* entry, and no undo the facade attempts for such a group fails because
\* the command is the only, unrevertible entry of its stack.
C17_BaselineStays ==
    /\ [](\A g \in SeededGroups :
             /\ command_stacks[g] # <<>>
             /\ command_stacks[g][Len(command_stacks[g])].cmd = Baseline(g))
    /\ [][last'.op = "update" =>
             \A i \in 1..Len(last'.ret.to_undo) :
                LET a == WithObj(last'.ret.to_undo[i])
                IN  GroupBy(a) \in SeededGroups =>
                       ~UnrevertibleBottom(
                            UndoEach(State, SubSeq(last'.ret.to_undo, 1, i - 1), 1),
                            a)]_vars

(***************************************************************************)
(* Properties of the InputHandler.  A step with last'.op = "update" is a   *)
(* call of update with the one event last'.arg[1] in the mode target.mode; *)
(* handler is the InputHandler before the call and handler' after it.      *)
(***************************************************************************)

\* the event comes from the bound device, or binds its device
Processed(e) ==
    \/ e.joy = handler.joystick_index
    \/ handler.joystick_index < 0 /\ e.type = JOYBUTTONDOWN

\* two vectors, neither of them neutral, that differ in exactly one
\* component, by exactly 1
Adjacent(u, v) ==
    /\ u # <<0, 0>> /\ v # <<0, 0>>
    /\ \/ u[1] = v[1] /\ (u[2] - v[2]) \in {-1, 1}
       \/ u[2] = v[2] /\ (u[1] - v[1]) \in {-1, 1}

\* the hat event meets a remembered diagonal next to its vector on a hat with
\* easy diagonals
Suppressed(e) ==
    /\ e.type = JOYHATMOTION
    /\ e.hat \in DOMAIN handler.hat_calibration
    /\ handler.hat_calibration[e.hat].easy_diagonals
    /\ handler.most_recent_hat_vector[e.hat][1] # 0
    /\ handler.most_recent_hat_vector[e.hat][2] # 0
    /\ Adjacent(handler.most_recent_hat_vector[e.hat], e.value)

\* the event is the down edge of the button or hat direction of binding B:
\* the button goes down, the hat moves to the direction
DownEdge(B, e) ==
    /\ Processed(e)
    /\ \/ B[1] = "buttons" /\ e.type = JOYBUTTONDOWN /\ e.button = B[2]
       \/ /\ B[1] = "hats" /\ e.type = JOYHATMOTION /\ ~Suppressed(e)
          /\ B[2] = hat_key(e.hat, e.value)

\* the event is the up edge: the button goes up, the hat moves from the
\* direction
UpEdge(B, e) ==
    /\ Processed(e)
    /\ \/ B[1] = "buttons" /\ e.type = JOYBUTTONUP /\ e.button = B[2]
       \/ /\ B[1] = "hats" /\ e.type = JOYHATMOTION /\ ~Suppressed(e)
          /\ B[2] = hat_key(e.hat, handler.most_recent_hat_vector[e.hat])

\* the edge selected by on_release
FiringEdge(B, e) == IF B[4].on_release THEN UpEdge(B, e) ELSE DownEdge(B, e)

\* C18: a toggle binding alternates on its successive firing edges in one
\* mode: its action goes to to_do on the first firing and whenever the
\* firing before put it in to_undo, to to_undo whenever the firing before
\* put it in to_do; any other event, the non-firing edge included, puts it
\* in neither list (and, by the alternation, leaves the toggle as it was).
C18_ToggleAlternates ==
    [][last'.op = "update" =>
          \A B \in KeymapBindings(handler.mappings[target.mode]) :
             B[4].behavior = "toggle" =>
                LET a == B[4].do
                    in_do == InSeq(a, last'.ret.to_do)
                    in_undo == InSeq(a, last'.ret.to_undo)
                IN  IF FiringEdge(B, last'.arg[1])
                    THEN IF run[<<target.mode, a>>] = "to_do"
                         THEN in_undo /\ ~in_do
                         ELSE in_do /\ ~in_undo
                    ELSE ~in_do /\ ~in_undo]_vars

\* the toggle of button 0 has fired for the second time in "default" (its
\* action went to to_undo) while the same button's toggle is on in "alt",
\* and the toggle on release of a hat direction has fired twice
C18_Witness ==
    /\ last.op = "update" /\ target.mode = "default"
    /\ last.ret = [to_do |-> <<>>, to_undo |-> <<Play(0)>>]
    /\ run[<<"alt", Play(0)>>] = "to_do"
    /\ run[<<"default", Play(9)>>] = "to_undo"

\* the number of times x occurs in seq
Count(x, seq) == Len(SelectSeq(seq, LAMBDA y : y = x))

\* C19: a latch binding, of a button or of a hat direction, puts its action
\* in to_do once on every event that is the edge selected by its on_release
\* (the down edge when unset, the up edge when set), puts nothing in to_do
\* on any other event, and never puts anything in to_undo.
C19_LatchFiresOnItsEdge ==
    [][last'.op = "update" =>
          \A B \in KeymapBindings(handler.mappings[target.mode]) :
             B[4].behavior = "latch" =>
                /\ Count(B[4].do, last'.ret.to_undo) = 0
                /\ Count(B[4].do, last'.ret.to_do)
                      = IF FiringEdge(B, last'.arg[1]) THEN 1 ELSE 0]_vars

\* the hat has moved from the direction of the latch on release to the
\* direction of a latch without on_release: both have fired
C19_Witness ==
    /\ last.op = "update"
    /\ last.arg = <<HatEvent(UP, 0, handler.joystick_index)>>
    /\ last.ret = [to_do |-> <<Play(6), Play(4), Play(5)>>, to_undo |-> <<>>]

\* the actions of the momentary bindings of hat key k in keymap, in order
MomentaryOf(keymap, k) ==
    LET actions == get_hat_actions(keymap, k)
        pick[i \in 0..Len(actions)] ==
            IF i = 0 THEN <<>>
            ELSE IF actions[i].behavior = "momentary"
                 THEN Append(pick[i - 1], actions[i].do)
                 ELSE pick[i - 1]
    IN  pick[Len(actions)]

\* C20: on a hat with easy diagonals, an event of the bound device whose
\* vector is adjacent to the remembered diagonal yields no to_do and no
\* to_undo and leaves the toggle states and the remembered vector as they
\* were; an event that follows it with a vector not adjacent to the diagonal
\* is a move from the diagonal: it undoes the diagonal's momentary actions,
\* does those of its own direction, and its vector is remembered.
C20_AdjacentSuppressed ==
    [][(/\ last'.op = "update"
        /\ Processed(last'.arg[1])
        /\ Suppressed(last'.arg[1])) =>
          LET e == last'.arg[1]
              diagonal == handler.most_recent_hat_vector[e.hat]
              keymap == handler.mappings[target.mode]
          IN  /\ last'.ret = [to_do |-> <<>>, to_undo |-> <<>>]
              /\ last'.exc = "none"
              /\ handler'.toggle_states = handler.toggle_states
              /\ handler'.most_recent_hat_vector[e.hat] = diagonal
              /\ \A v \in Vectors :
                    ~Adjacent(diagonal, v) =>
                       LET r == handler_update(handler', target.mode,
                                               <<HatEvent(v, e.hat, e.joy)>>)
                       IN  /\ r.H.most_recent_hat_vector[e.hat] = v
                           /\ \A i \in 1..Len(MomentaryOf(keymap, hat_key(e.hat, diagonal))) :
                                 InSeq(MomentaryOf(keymap, hat_key(e.hat, diagonal))[i],
                                       r.to_undo)
                           /\ \A i \in 1..Len(MomentaryOf(keymap, hat_key(e.hat, v))) :
                                 InSeq(MomentaryOf(keymap, hat_key(e.hat, v))[i],
                                       r.to_do)]_vars

\* the hat went to a diagonal that has a momentary binding and a toggle on
\* release, then an event for the direction LEFT next to it, which has a
\* toggle, was dropped
C20_Witness ==
    /\ last.op = "update" /\ target.mode = "default"
    /\ last.arg = <<HatEvent(LEFT, 0, handler.joystick_index)>>
    /\ handler.hat_calibration[0].easy_diagonals
    /\ handler.most_recent_hat_vector[0] = UPLEFT
    /\ last.ret = [to_do |-> <<>>, to_undo |-> <<>>]

(***************************************************************************)
(* Properties of the facade played with the hat.                           *)
(***************************************************************************)

\* the notes of a chord
Notes(chord) == {chord[i] : i \in 1..Len(chord)}

\* C21: a hat event of the bound device that is not suppressed, moving the
\* hat from A to B, yields to_undo = the momentary actions of A and to_do =
\* those of B (none when B is neutral), B becomes the remembered vector, and
\* the facade undoes A's actions before it does B's: the state is the one
\* reached by the undos followed by the dos, and when B has a
\* play_scale_position action the notes playing are B's chord.
C21_ReleaseBeforePress ==
    [][(/\ last'.op = "update" /\ last'.n = 1
        /\ last'.arg[1].type = JOYHATMOTION
        /\ Processed(last'.arg[1])
        /\ ~Suppressed(last'.arg[1])) =>
          LET e == last'.arg[1]
              keymap == handler.mappings[target.mode]
              A == handler.most_recent_hat_vector[e.hat]
              B == e.value
              undone == MomentaryOf(keymap, hat_key(e.hat, A))
              done == IF B = NEUTRAL THEN <<>>
                      ELSE MomentaryOf(keymap, hat_key(e.hat, B))
          IN  /\ last'.ret = [to_do |-> done, to_undo |-> undone]
              /\ last'.exc = "none"
              /\ handler'.most_recent_hat_vector[e.hat] = B
              /\ State' = DoAll(UndoEach(State, undone, 1), done, 1, TRUE).S
              /\ done # <<>> =>
                    target'.playing = Notes(construct_chord(target, done[1][2]))]_vars

\* the hat has moved from UP to LEFT: UP's chord was released and LEFT's is
\* playing, and LEFT's command alone is on the undo stack
C21_Witness ==
    /\ last.op = "update" /\ last.n = 1
    /\ last.arg = <<HatEvent(LEFT, 0, handler.joystick_index)>>
    /\ last.ret = [to_do |-> <<Play(4)>>, to_undo |-> <<Play(0)>>]
    /\ Len(command_stacks[<<"play_scale_position", INST>>]) = 1
    /\ command_stacks[<<"play_scale_position", INST>>][1].cmd = WithObj(Play(4))
    /\ target.playing = Notes(construct_chord(target, 4))

(***************************************************************************)
(* Further properties of the InputHandler on its own.                      *)
(***************************************************************************)

\* C22: once a device is bound, update never changes the bound device; and
\* an event of another device, or, while no device is bound, an event that
\* is not a button-down, yields no action and leaves the toggle states, the
\* remembered hat vectors and the mode as they were.
C22_DeviceBinding ==
    [][last'.op = "update" =>
          /\ handler.joystick_index >= 0 =>
                handler'.joystick_index = handler.joystick_index
          /\ \A i \in 1..Len(last'.arg) :
                (\/ /\ handler.joystick_index >= 0
                    /\ last'.arg[i].joy # handler.joystick_index
                 \/ /\ handler.joystick_index < 0
                    /\ last'.arg[i].type # JOYBUTTONDOWN) =>
                   /\ last'.ret = [to_do |-> <<>>, to_undo |-> <<>>]
                   /\ handler'.toggle_states = handler.toggle_states
                   /\ handler'.most_recent_hat_vector = handler.most_recent_hat_vector
                   /\ handler'.joystick_index = handler.joystick_index
                   /\ target'.mode = target.mode]_vars

\* device 1 is bound, a toggle is on, and a press of button 0 of device 0
\* was dropped
C22_Witness ==
    /\ last.op = "update"
    /\ handler.joystick_index = 1
    /\ last.arg = <<ButtonEvent(0, TRUE, 0)>>
    /\ last.ret = [to_do |-> <<>>, to_undo |-> <<>>]
    /\ handler.toggle_states # {}

\* the handler with the device bound beforehand
BoundTo(joy) == [handler EXCEPT !.joystick_index = joy]

\* C23: the button-down that binds the device is processed in the same pass:
\* the device is bound to it, and the response and the toggle states are those
\* the same button-down yields on a handler already bound to that device.
C23_BindingPressProcessed ==
    [][(/\ last'.op = "update"
        /\ Len(last'.arg) = 1
        /\ handler.joystick_index < 0
        /\ last'.arg[1].type = JOYBUTTONDOWN) =>
          /\ handler'.joystick_index = last'.arg[1].joy
          /\ \E r \in {handler_update(BoundTo(last'.arg[1].joy), target.mode,
                                       last'.arg)} :
                /\ last'.ret = [to_do |-> r.to_do, to_undo |-> r.to_undo]
                /\ last'.exc = r.exc
                /\ handler' = r.H]_vars

\* the very first event is a press of button 0, whose toggle puts its action
\* in to_do
C23_Witness ==
    /\ last.op = "update"
    /\ last.arg = <<ButtonEvent(0, TRUE, 0)>>
    /\ handler.joystick_index = 0
    /\ last.ret = [to_do |-> <<Play(0)>>, to_undo |-> <<>>]
    /\ \A k \in ToggleKeys : k[2] # Play(0) => run[k] = "none"

(***************************************************************************)
(* Properties of the controller with two modes.                            *)
(***************************************************************************)

\* C24: when the press of a button put a momentary "mode" action in to_do,
\* the release of that button leaves the mode that was active before the
\* press, whatever was processed while the button was down.
C24_ReleaseRestoresMode ==
    [][(/\ last'.op = "update"
        /\ last'.arg = <<ButtonEvent(0, FALSE, 0)>>
        /\ held # <<>>
        /\ held[2]) =>
          target'.mode = held[1]]_vars

(***************************************************************************)
(* Properties of value_in_range.  A state with last.op = "value_in_range"  *)
(* is the state after the call with the arguments in run.                  *)
(***************************************************************************)

\* C27: value_in_range raises the invalid-input error for every curve that
\* is not positive, a curve of 0 as well as a negative one.
C27_NonPositiveCurveRaises ==
    (last.op = "value_in_range" /\ run.curve <= 0) => last.exc = "ValueError"

\* the value i * (max - min) / n + min of index i of a table of n steps
StepValue(i) ==
    RAdd(RMul(Rat(i, 1),
              RDiv(RSub(run.value_at_max, run.value_at_min),
                   Rat(Len(run.steps), 1))),
         run.value_at_min)

\* a call with a step table that returned a value
SteppedReturn ==
    /\ last.op = "value_in_range"
    /\ last.exc = "none"
    /\ run.steps # <<>>

\* C28 as stated: the value is that of the index of the first step of the
\* ascending table that is greater than or equal to the percent; when there
\* is none, the max value if inclusive, else the value of the last index.
C28_FirstStepAtLeast ==
    SteppedReturn =>
        \E sorted \in {Sorted(run.steps)} :
            \/ \E i \in 1..Len(sorted) :
                  /\ ~RLess(sorted[i], run.percent)
                  /\ \A j \in 1..(i - 1) : RLess(sorted[j], run.percent)
                  /\ last.ret = StepValue(i - 1)
            \/ /\ \A i \in 1..Len(sorted) : RLess(sorted[i], run.percent)
               /\ last.ret = IF run.inclusive THEN run.value_at_max
                             ELSE StepValue(Len(sorted) - 1)

\* C28: the value is that of the index of the first step of the ascending
\* table that is strictly greater than the percent; when there is none, the
\* max value if inclusive, else the value of the last index.
C28_FirstStepGreater ==
    SteppedReturn =>
        \E sorted \in {Sorted(run.steps)} :
            \/ \E i \in 1..Len(sorted) :
                  /\ RLess(run.percent, sorted[i])
                  /\ \A j \in 1..(i - 1) : ~RLess(run.percent, sorted[j])
                  /\ last.ret = StepValue(i - 1)
            \/ /\ \A i \in 1..Len(sorted) : ~RLess(run.percent, sorted[i])
               /\ last.ret = IF run.inclusive THEN run.value_at_max
                             ELSE StepValue(Len(sorted) - 1)

\* the percent 2/5 is a step of the table of fifths: over 0..10 the value is
\* 4, that of the step 3/5
C28_Witness ==
    /\ SteppedReturn
    /\ run.steps = Fifths
    /\ run.percent = Rat(2, 5)
    /\ run.value_at_min = Rat(0, 1) /\ run.value_at_max = Rat(10, 1)
    /\ last.ret = Rat(4, 1)

\* the steps of the table that are not greater than the percent
NotGreater == {i \in 1..Len(run.steps) : ~RLess(run.percent, run.steps[i])}

\* the call of the test with the table of fifths over 0..10
FifthsCall(percent, inclusive) ==
    /\ run.steps = Fifths
    /\ run.percent = percent
    /\ run.inclusive = inclusive
    /\ run.value_at_min = Rat(0, 1) /\ run.value_at_max = Rat(10, 1)

AxisProcessed ==
    /\ last'.op = "update"
    /\ last'.arg[1].type = JOYAXISMOTION
    /\ last'.arg[1].joy = handler.joystick_index

OutOfRange(e) ==
    \/ RLess(Round3(e.value), handler.axis_calibration[e.axis].min)
    \/ RLess(handler.axis_calibration[e.axis].max, Round3(e.value))

\* the axis has a binding in the active mode
AxisBound(a) ==
    /\ "axes" \in DOMAIN handler.mappings[target.mode]
    /\ a \in DOMAIN handler.mappings[target.mode].axes
    /\ handler.mappings[target.mode].axes[a] # <<>>

\* C26 as stated: an axis event that normalizes to a percent outside [0, 1]
\* is not clamped: update raises ValueError and produces no action.
C26_OutOfRangeRaises ==
    [][(AxisProcessed /\ OutOfRange(last'.arg[1])) =>
          /\ last'.exc = "ValueError"
          /\ last'.ret = NoResponse]_vars

\* C26: an event that normalizes to a percent outside [0, 1], of an axis
\* with a binding in the active mode, is not clamped: update raises
\* ValueError and produces no action; of an axis without binding it is
\* dropped without error.
C26_BoundOutOfRangeRaises ==
    [][(AxisProcessed /\ OutOfRange(last'.arg[1])) =>
          /\ last'.ret = NoResponse
          /\ last'.exc = IF AxisBound(last'.arg[1].axis) THEN "ValueError"
                         ELSE "none"]_vars

\* axis 5, calibrated to -1/2..1/2, has read 1 and update has raised
C26_Witness ==
    /\ last.op = "update"
    /\ last.arg = <<AxisEvent(Rat(1, 1), 5, 0)>>
    /\ handler.joystick_index = 0
    /\ last.exc = "ValueError"

(***************************************************************************)
(* Properties of the group keys.  Two commands share an undo stack when    *)
(* they lie on the same stack of command_stacks.                           *)
(***************************************************************************)

\* the commands c1 on stack g1 and c2 on stack g2 are as C30 says
GroupedAsStated(g1, c1, g2, c2) ==
    /\ c1[1] # c2[1] => g1 # g2
    /\ (c1[1] = c2[1] /\ c1[1] \in {"set", "set_next", "commit"}) =>
          (g1 = g2 <=> (c1[2] = c2[2] /\ c1[3] = c2[3]))
    /\ (c1[1] = c2[1] /\ c1[1] \in {"inc", "dec"}) =>
          (g1 = g2 <=> (c1[2] = c2[2] /\ c1[3] = c2[3] /\ c1[4] = c2[4]))
    /\ (c1[1] = c2[1] /\ c1[1] = "play_scale_position") =>
          (g1 = g2 <=> c1[2] = c2[2])

\* C30: "set" commands, and "set_next" commands, of one target and key
\* share a stack whatever their values; "inc" commands, and "dec" commands,
\* share one only when target, key and delta are equal; the
\* "play_scale_position" commands of one target share one whatever the
\* position; "commit" commands share one when target and key are equal;
\* commands of different kinds never share one.
C30_GroupKeys ==
    \A g1 \in DOMAIN command_stacks, g2 \in DOMAIN command_stacks :
        \A i \in 1..Len(command_stacks[g1]), j \in 1..Len(command_stacks[g2]) :
            GroupedAsStated(g1, command_stacks[g1][i].cmd,
                            g2, command_stacks[g2][j].cmd)

\* two "set" commands of the octave with different values lie on one stack
C30_Witness ==
    /\ last.op = "do"
    /\ last.n = 2
    /\ <<"set", INST, "octave">> \in DOMAIN command_stacks
    /\ Len(command_stacks[<<"set", INST, "octave">>]) = 2
    /\ command_stacks[<<"set", INST, "octave">>][1].cmd
           # command_stacks[<<"set", INST, "octave">>][2].cmd

(***************************************************************************)
(* Properties of the controller given motions of the hat only.             *)
(***************************************************************************)

\* C31: after the motions of the hat processed so far, no note is playing
\* when the last processed vector of the hat is neutral, and otherwise the
\* notes playing are exactly the chord of the direction of that vector.
C31_NotesFollowHat ==
    \E v \in {handler.most_recent_hat_vector[0]} :
        target.playing =
            IF v = NEUTRAL THEN {}
            ELSE Notes(construct_chord(target, HatPlays[hat_key(0, v)][1].do[2]))

(***************************************************************************)
(* Properties of the staging of pending values.                            *)
(***************************************************************************)

\* C32: a done set_next(key, v) leaves the attributes as they were and makes
\* v the pending value of key; a done commit(key) with a pending value
\* assigns it to the attribute and removes the pending entry, and with none
\* pending leaves the target as it was; an undone commit leaves the target
\* as it was.
C32_Staging ==
    [][/\ (last'.op = "do" /\ last'.exc = "none" /\ last'.cmd[1] = "set_next") =>
             /\ target'.attr = target.attr
             /\ last'.cmd[3] \in DOMAIN target'.next
             /\ target'.next[last'.cmd[3]] = last'.cmd[4]
       /\ (last'.op = "do" /\ last'.exc = "none" /\ last'.cmd[1] = "commit") =>
             IF last'.cmd[3] \in DOMAIN target.next
             THEN /\ target'.attr = SetAttr(target, last'.cmd[3],
                                            target.next[last'.cmd[3]]).attr
                  /\ last'.cmd[3] \notin DOMAIN target'.next
             ELSE target' = target
       /\ (last'.op = "undo" /\ last'.cmd[1] = "commit") => target' = target]_vars

(***************************************************************************)
(* Further properties of the Invoker used directly.                        *)
(***************************************************************************)

\* the limits after add_command(cmd, lim) in the present state
LimitsAfterAdd(cmd, lim) == add_command(State, cmd, lim).S.limits

\* a registration of cmd with the limit lim gives lim to the group of cmd,
\* whatever limit the group had, and leaves the other groups their limits;
\* of a registered cmd it leaves every limit
RegistrationSetsLimit ==
    \A cmd \in {c \in AllCmds : InUse(c)}, lim \in 0..MaxLimit :
        IF Registered(commands, cmd)
        THEN LimitsAfterAdd(cmd, lim) = command_stack_limits
        ELSE /\ LimitsAfterAdd(cmd, lim)[GroupBy(cmd)] = lim
             /\ \A g \in DOMAIN command_stack_limits \ {GroupBy(cmd)} :
                   LimitsAfterAdd(cmd, lim)[g] = command_stack_limits[g]

\* the step registers the not yet registered command of the call, through
\* add_command or through a do that registers it
Registers ==
    /\ ~Registered(commands, last'.cmd)
    /\ Registered(commands', last'.cmd)

\* C33: the limit of a group is the one supplied by the most recent
\* registration of a command of the group that was not yet registered, be
\* it 0 after 2 or 2 after 0; the registration of a registered command, and
\* every other call, leaves the limits as they were.
C33_LimitOfLastRegistration ==
    /\ []RegistrationSetsLimit
    /\ [][/\ ~Registers => command_stack_limits' = command_stack_limits
          /\ Registers =>
                /\ \E lim \in 0..MaxLimit :
                      command_stack_limits' = LimitsAfterAdd(last'.cmd, lim)
                /\ (last'.op = "do") =>
                      command_stack_limits'[GroupBy(last'.cmd)] = last'.arg[2]]_vars

\* the group of quality_modifier has two registered commands and, after the
\* registration of the second, no limit, with two entries on its stack
C33_Witness ==
    /\ last.op = "add_command"
    /\ Cardinality(DOMAIN commands \cap SetCmds) = 2
    /\ LimitOf(command_stack_limits, <<"set", INST, "quality_modifier">>) = 0
    /\ <<"set", INST, "quality_modifier">> \in DOMAIN command_stacks
    /\ Len(command_stacks[<<"set", INST, "quality_modifier">>]) = 2

\* the delta an "inc" or "dec" action adds to its attribute
SignedDelta(cmd) == IF cmd[1] = "dec" THEN 0 - cmd[4] ELSE cmd[4]

\* C34: a successful do of an "inc" action with delta d leaves the attribute
\* assigned its value before the call plus d, and of a "dec" action its
\* value before the call minus d, also when the stack of the group is at its
\* limit.
C34_IncAddsDelta ==
    [][(/\ last'.op = "do" /\ last'.exc = "none"
        /\ last'.cmd[1] \in {"inc", "dec"}) =>
          target'.attr[last'.cmd[3]] =
              SetAttr(target, last'.cmd[3],
                      target.attr[last'.cmd[3]] + SignedDelta(last'.cmd)
                     ).attr[last'.cmd[3]]]_vars

(***************************************************************************)
(* Further properties of the facade.                                       *)
(***************************************************************************)
StacksWithinLimit ==
    \A g \in DOMAIN command_stacks : Len(command_stacks[g]) <= STACK_LIMIT

\* the to_do action i of the response of the update that has just run was
\* not registered before it
Unmapped(i) == ~Registered(commands, WithObj(last'.ret.to_do[i]))

\* C35: in every state reachable through the facade every undo stack holds at
\* most 20 entries, and every to_do action of an update that was not
\* registered (the axis action carrying a mapped value) is registered by the
\* update and executed, the update ending without an exception: the action
\* is then on top of the stack of its group and the attribute has its value.
C35_DepthAndAutoRegistration ==
    /\ []StacksWithinLimit
    /\ [][last'.op = "update" =>
            \A i \in 1..Len(last'.ret.to_do) :
                Unmapped(i) =>
                    \E c \in {WithObj(last'.ret.to_do[i])} :
                        /\ last'.exc = "none"
                        /\ Registered(commands', c)
                        /\ command_stacks'[GroupBy(c)][1].cmd = c
                        /\ Name(c) = "set" => GetAttr(target', Key(c)) = Value(c)]_vars

\* the axis has just set the voicing to 2 with a command the update has
\* registered, and the stack of quality_modifier is full
C35_Witness ==
    /\ last.op = "update"
    /\ last.arg \in [1..1 -> DeepAxisEvents]
    /\ GetAttr(target, "voicing") = 2
    /\ Len(command_stacks[<<"set", INST, "voicing">>]) = 2
    /\ Len(command_stacks[<<"set", INST, "quality_modifier">>]) = STACK_LIMIT

(***************************************************************************)
(* Further properties of the undo stacks under do and undo.                *)
(***************************************************************************)
\* the groups with a stack whose commands have no revert effect, with no
\* depth limit or a limit of at least 2
NoRevertGroups ==
    {g \in DOMAIN command_stacks :
        /\ ~HasRevert(g)
        /\ g \in DOMAIN command_stack_limits
        /\ command_stack_limits[g] # 1}

\* C36: the undo stack of a group whose commands have no revert effect,
\* without a depth limit or with a limit of at least 2, never becomes empty
\* again once it holds an entry, whatever do and undo calls follow and
\* whether they succeed or fail.
C36_NoRevertStackStaysNonEmpty ==
    [][\A g \in NoRevertGroups :
           command_stacks[g] # <<>> =>
               g \in DOMAIN command_stacks' /\ command_stacks'[g] # <<>>]_vars

\* an undo of the only entry of such a stack under the limit 2 has just
\* failed, and the entry is still there
C36_Witness ==
    /\ last.op = "undo"
    /\ last.exc = "UndoError"
    /\ ~HasRevert(last.cmd)
    /\ GroupBy(last.cmd) \in NoRevertGroups
    /\ command_stack_limits[GroupBy(last.cmd)] = 2
    /\ Len(command_stacks[GroupBy(last.cmd)]) = 1
    /\ command_stacks[GroupBy(last.cmd)][1].cmd = last.cmd

\* the sum of the signed deltas of the entries of a stack from entry i on
RECURSIVE StackDelta(_, _)
StackDelta(stack, i) ==
    IF i > Len(stack) THEN 0
    ELSE SignedDelta(stack[i].cmd) + StackDelta(stack, i + 1)

\* the sum of the signed deltas of the entries of the stacks of groups
RECURSIVE GroupsDelta(_)
GroupsDelta(groups) ==
    IF groups = {} THEN 0
    ELSE LET g == CHOOSE x \in groups : TRUE
         IN  StackDelta(command_stacks[g], 1) + GroupsDelta(groups \ {g})

\* the inc and dec stacks of an attribute
IncDecGroups(key) ==
    {g \in DOMAIN command_stacks : g[1] \in {"inc", "dec"} /\ g[3] = key}

\* no registered command other than inc and dec writes the attribute
OnlyIncDec(key) ==
    \A c \in DOMAIN commands :
        Name(c) \in {"set", "set_next", "commit"} => Key(c) # key

\* C37 as stated: the octave, written by inc and dec commands only, is its
\* initial value plus the sum of the signed deltas of the entries of its inc
\* and dec stacks.
C37_AttributeIsInitialPlusDeltas ==
    OnlyIncDec("octave") =>
        GetAttr(target, "octave")
            = GetAttr(TargetInit, "octave") + GroupsDelta(IncDecGroups("octave"))

\* C37 amended: the octave, written by inc and dec commands with integer
\* deltas only, is what the setter of the attribute stores for its initial
\* value plus the sum of the signed deltas of the entries of its inc and dec
\* stacks (that sum modulo 9), after any do and undo calls, successful or
\* failing, with or without depth limits.
C37_AttributeIsStoredInitialPlusDeltas ==
    OnlyIncDec("octave") =>
        GetAttr(target, "octave")
            = GetAttr(SetAttr(TargetInit, "octave",
                              GetAttr(TargetInit, "octave")
                                  + GroupsDelta(IncDecGroups("octave"))),
                      "octave")

\* an undo has just succeeded while the deltas of the entries left in the
\* stacks carry the octave past 8, and a group has a depth limit
C37_Witness ==
    /\ last.op = "undo"
    /\ last.exc = "none"
    /\ Name(last.cmd) \in {"inc", "dec"}
    /\ GetAttr(TargetInit, "octave") + GroupsDelta(IncDecGroups("octave")) > 8
    /\ \E g \in IncDecGroups("octave") : LimitOf(command_stack_limits, g) > 0

(***************************************************************************)
(* Further properties of the facade under batches and modes.               *)
(***************************************************************************)
\* the Invoker after ChordController.update with the press of a button and
\* then ChordController.update with its release
PressThenRelease(b, j) ==
    controller_update(
        controller_update(Facade, <<ButtonEvent(b, TRUE, j)>>).F,
        <<ButtonEvent(b, FALSE, j)>>).F.S

\* C38: an update whose batch holds the button-down and then the button-up of
\* one momentary "set" button leaves the attribute and the undo stack of the
\* group as the two events passed in two successive updates leave them, the
\* attribute being back at its value before the press.
C38_BatchingSameOutcome ==
    [][\A b \in {x \in FacadeButtons : FacadeDo(x)[1] = "set"}, j \in Joys :
           (/\ last'.op = "update"
            /\ last'.arg = <<ButtonEvent(b, TRUE, j), ButtonEvent(b, FALSE, j)>>)
           => \E two \in {PressThenRelease(b, j)},
                 g \in {GroupBy(WithObj(FacadeDo(b)))} :
                  /\ GetAttr(target', FacadeDo(b)[2]) = GetAttr(two.target, FacadeDo(b)[2])
                  /\ command_stacks'[g] = two.stacks[g]
                  /\ GetAttr(target', FacadeDo(b)[2]) = GetAttr(target, FacadeDo(b)[2])]_vars

\* the scan of the events from i on, every event looked up on its own in the
\* mode m: acc is [H, to_do, to_undo]
RECURSIVE ScanEach(_, _, _, _)
ScanEach(acc, m, events, i) ==
    IF i > Len(events) THEN acc
    ELSE \* the response to the event alone
         LET r == handler_update(acc.H, m, <<events[i]>>)
         IN  ScanEach([H |-> r.H, to_do |-> acc.to_do \o r.to_do,
                       to_undo |-> acc.to_undo \o r.to_undo],
                      m, events, i + 1)

\* the response holds a "mode" action
HasModeAction(response) ==
    \/ \E i \in 1..Len(response.to_do) : response.to_do[i][1] = "mode"
    \/ \E i \in 1..Len(response.to_undo) : response.to_undo[i][1] = "mode"

\* C39: the response of an update is what its events give when each is
\* looked up in the mode that was active when the update began, also the
\* events that follow a mode-switching button in the batch, and the mode
\* changes only in an update whose response holds a mode action, which the
\* facade does or undoes after the scan.
C39_BatchScannedInOneMode ==
    [][last'.op = "update" =>
          \E each \in {ScanEach([H |-> handler, to_do |-> <<>>, to_undo |-> <<>>],
                                target.mode, last'.arg, 1)} :
              /\ last'.ret.to_do = each.to_do
              /\ last'.ret.to_undo = each.to_undo
              /\ handler' = each.H
              /\ target'.mode # target.mode => HasModeAction(last'.ret)]_vars

\* the batch held the press and the release of the mode button while the
\* other mode does not bind it: the release was looked up in the mode of the
\* start of the batch, and the facade has switched the mode afterwards
C39_Witness ==
    /\ last.op = "update"
    /\ last.arg = <<ButtonEvent(0, TRUE, 0), ButtonEvent(0, FALSE, 0)>>
    /\ handler.mappings = ModeMappings(FALSE)
    /\ last.ret.to_do = <<ModeSwitch>>
    /\ last.ret.to_undo = <<ModeSwitch>>
    /\ target.mode = "alt"

\* the bindings of button b in the mode that is active
ActiveBindings(b) ==
    IF b \in DOMAIN handler.mappings[target.mode].buttons
    THEN handler.mappings[target.mode].buttons[b] ELSE <<>>

\* the "do" of the momentary bindings among bindings, in their order
MomentaryDos(bindings) ==
    LET momentary == SelectSeq(bindings, LAMBDA d : d.behavior = "momentary")
    IN  [i \in 1..Len(momentary) |-> momentary[i].do]

\* the update that has just run was given the release of button b of the
\* tracked device
Released(b) ==
    /\ last'.op = "update"
    /\ last'.arg = <<ButtonEvent(b, FALSE, 0)>>
    /\ handler.joystick_index = 0

\* the press of button 0 put the mode action in to_do and the mode is no
\* longer the one of the press
ModeChangedWhileHeld ==
    /\ held # <<>>
    /\ held[2]
    /\ target.mode # held[1]

\* the mode command is in the stack
OnModeStack(stacks) ==
    \E i \in 1..Len(stacks[GroupBy(WithObj(ModeSwitch))]) :
        stacks[GroupBy(WithObj(ModeSwitch))][i].cmd = WithObj(ModeSwitch)

====
